---- MODULE Spec2Model ----
(***************************************************************************)
(* GTFS ingestion: warehouse write strategies (append, streaming,          *)
(* staged-merge), the snapshot key-set engine, the cleaning pipeline and   *)
(* the transform runs over the cache objects.                              *)
(*                                                                         *)
(* Spec        the staged-merge strategy upsert_batch on one destination   *)
(*             table, step by step, with process crashes                   *)
(* SpecWrite   every write strategy on a destination table that may be     *)
(*             missing                                                     *)
(* SpecStream  the streaming uploads, with the snapshot key set            *)
(* SpecFilter  _drop_seen_rows as a function of its arguments              *)
(* SpecClean   clean_and_validate_dataframe for the trip updates contract, *)
(*             in processes that start and restart                         *)
(* SpecDedup   deduplicate_by_record_id on the batches that reach it       *)
(* SpecColumns clean_and_validate_dataframe for the vehicle positions and  *)
(*             trip updates contracts: the columns it returns              *)
(* SpecSchedule   the transform runs of the schedule dataset               *)
(* SpecRealtime   the transform runs of a realtime dataset, with process   *)
(*             stops between the upsert and the move of the objects        *)
(* SpecConcurrent  staged-merge invocations that run side by side          *)
(* SpecRealtimeLive  realtime runs that go on, fairly, with a warehouse    *)
(*             and a bucket that answer                                    *)
(* SpecSnapshotBeside  _overwrite_snapshot beside _load_snapshot_keys      *)
(* SpecNormalize  normalize_nested_json on a list of entities, step by     *)
(*             step                                                        *)
(***************************************************************************)
EXTENDS Integers, Sequences, FiniteSets, Bags, TLC

VARIABLES
    destExists,   \* the destination table exists in the warehouse
    destRows,     \* the destination table's rows, a bag (SQL tables are multisets)
    staging,      \* the staging tables that exist: staging table id -> rows loaded
    call,         \* the write call in progress, or the last one that ended
    onlyMerge,    \* history: every write so far was an upsert_batch of a batch with unique record_id
    snap,         \* the snapshot table <table>_snapshot: whether it exists, its key rows, captured_at
    keyCols,      \* snapshot_key_columns the uploads of this table are configured with
    ftIn,         \* the arguments of one call of _drop_seen_rows
    ftOut,        \* what that call returned
    clSeed,       \* the order in which this process iterates the set of mapped target columns
    clIn,         \* the raw DataFrame of the last clean_and_validate_dataframe call of this process
    clOut,        \* what that call returned or that it raised
    clAgain,      \* what a second call on the returned DataFrame returned or that it raised
    clIds,        \* history: the (non-volatile content, record_id) pairs of all rows cleaned so far
    clRuns,       \* history: number of raw batches cleaned so far
    ddIn,         \* a raw batch on its way through the stages before deduplicate_by_record_id
    ddOut,        \* the DataFrame handed to deduplicate_by_record_id, what it returned, and
                  \* what the whole pipeline returned for the batch
    coIn,         \* a dataset, a raw batch of it and the set iteration order of the process
    coOut,        \* what clean_and_validate_dataframe returned for it or that it raised
    dataset,      \* the DATASET the transform function is deployed for
    blobs,        \* every object ever written under the cache prefix, in the order of
                  \* time_created: number -> content
    cache,        \* the objects that are under the cache prefix now
    final,        \* the objects that are under the final prefix now
    loads,        \* the schedule tables: the bag of (object, file) whose rows were appended
    run,          \* the transform run in progress, or the last one that ended
    invs,         \* the staged-merge invocations that run side by side: what each runs,
                  \* where it is and the staging table name it drew
    owner,        \* history: staging table id -> the invocation whose call created the table
    shared,       \* history: the loads, merges and deletes that hit a staging table
                  \* created by another invocation
    ow,           \* the _overwrite_snapshot call in progress beside the loads, or the last one
    rd,           \* the last _load_snapshot_keys call beside the overwrites: what it returned
                  \* and, history, the complete key sets the snapshot had around it
    njIn,         \* the entities handed to one call of normalize_nested_json
    nj            \* that call: where it is, df_result, the explosions done, what it returned

whVars == <<destExists, destRows, staging, call, onlyMerge>>
snVars == <<snap, keyCols>>
ftVars == <<ftIn, ftOut>>
clVars == <<clSeed, clIn, clOut, clAgain, clIds, clRuns>>
ddVars == <<ddIn, ddOut>>
coVars == <<coIn, coOut>>
trVars == <<dataset, blobs, cache, final, loads, run>>
cnVars == <<invs, owner, shared>>
scVars == <<ow, rd>>
njVars == <<njIn, nj>>

\* the variables that no single write call touches
pureVars == <<ftVars, clVars, ddVars, coVars, trVars, cnVars, scVars, njVars>>

vars == <<whVars, snVars, pureVars>>

NULL == "NULL"     \* None / NaN in a string column
NoTs == 0 - 1      \* NULL / NaT in the timestamp column

----------------------------------------------------------------------------
(* Bounds of the model *)

MaxCalls == 2       \* write calls in one behaviour
MaxFilterRows == 3  \* rows of a batch handed to _drop_seen_rows
MaxDedupRows == 3   \* rows of a batch handed to deduplicate_by_record_id
MaxRuns == 2        \* transform runs in one behaviour
MaxBlobs == 2       \* objects written to the cache in one behaviour
MaxInvocations == 2 \* staged-merge invocations that run side by side
TicksPerDay == 2    \* granularity of the clock: timestamps are ticks, a day is TicksPerDay ticks

RecordIds == {"r1", "r2"}
\* a tick inside day 0 and the midnight that starts day 1
Timestamps == {1, TicksPerDay}
Days == {0, 1}
Stamps == {1, 2}    \* created_at / updated_at stamps a batch can carry
StagingIds == {"s1", "s2"}   \* the values uuid4().hex[:8] can take

----------------------------------------------------------------------------
(* Generic helpers *)

Range(s) == {s[i] : i \in DOMAIN s}

RECURSIVE SumF(_, _)
SumF(f, S) == IF S = {} THEN 0
              ELSE LET x == CHOOSE y \in S : TRUE IN f[x] + SumF(f, S \ {x})

RECURSIVE BagOfSeq(_)
BagOfSeq(s) == IF s = <<>> THEN EmptyBag
               ELSE SetToBag({Head(s)}) (+) BagOfSeq(Tail(s))

SeqsUpTo(S, n) == UNION {[1..k -> S] : k \in 0..n}

MinOf(S) == CHOOSE x \in S : \A y \in S : x <= y
MaxOf(S) == CHOOSE x \in S : \A y \in S : x >= y

----------------------------------------------------------------------------
(* DataFrames handed to the write strategies.  A row carries the columns   *)
(* of the destination schema; cols is the set of columns the DataFrame     *)
(* really has (a column outside cols reads NULL after alignment).          *)

TargetColumns == {"record_id", "timestamp", "created_at", "updated_at"}

MkRow(rid, ts, stamp) ==
    [record_id |-> rid, timestamp |-> ts, created_at |-> stamp, updated_at |-> stamp]

\* the rows of a frame, one for each record_id of ids, with the timestamps ts
FrameRows(ids, ts, stamp) ==
    LET one(rid) == IF rid \in ids THEN <<MkRow(rid, ts[rid], stamp)>> ELSE <<>>
    IN one("r1") \o one("r2")

\* the cleaning pipeline hands over frames with unique record_id (it drops the
\* repeats); a table load keeps no row order, so one ordering of each is drawn
UniqueFrames(stamp) ==
    {FrameRows(ids, ts, stamp) : ids \in SUBSET RecordIds,
                                 ts \in [RecordIds -> Timestamps \cup {NoTs}]}

\* frames in which a record_id repeats, with the same and with another timestamp
RepeatFrames(stamp) ==
    {<<MkRow(rid, 1, stamp), MkRow(rid, ts, stamp)>> : rid \in RecordIds, ts \in Timestamps}

\* the input batches: full frames, frames without a timestamp column, and a
\* frame without record_id
Batches ==
    {[cols |-> TargetColumns, rows |-> rs] :
        rs \in UNION {UniqueFrames(st) \cup RepeatFrames(st) : st \in Stamps}}
    \cup {[cols |-> TargetColumns \ {"timestamp"}, rows |-> <<MkRow(rid, NoTs, st)>>] :
            rid \in RecordIds, st \in Stamps}
    \cup {[cols |-> TargetColumns \ {"record_id"}, rows |-> <<MkRow(NULL, 1, 1)>>]}

DfEmpty(df) == df.rows = <<>>

UniqueRecordIds(rows) ==
    \A i, j \in DOMAIN rows : rows[i].record_id = rows[j].record_id => i = j

----------------------------------------------------------------------------
(* upsert_batch: the merge window and the MERGE statement *)

DayOf(t) == t \div TicksPerDay
DayStart(d) == d * TicksPerDay

\* pd.to_datetime(...).min()/.max() skip nulls; NULL when the column is all null
TsValues(rows) == {rows[i].timestamp : i \in DOMAIN rows} \ {NoTs}

\* [lb, ub) at day granularity; the current UTC day when the batch has no timestamp
MergeWindow(rows, today) ==
    IF TsValues(rows) = {}
    THEN [lb |-> DayStart(today), ub |-> DayStart(today + 1)]
    ELSE [lb |-> DayStart(DayOf(MinOf(TsValues(rows)))),
          ub |-> DayStart(DayOf(MaxOf(TsValues(rows))) + 1)]

\* the comparison with a closed upper bound
InWindowClosed(t, w) == t # NoTs /\ t >= w.lb /\ t <= w.ub

\* SQL: timestamp >= @lb AND timestamp < @ub (a NULL timestamp satisfies neither)
InWindow(t, w) == t # NoTs /\ t >= w.lb /\ t < w.ub

\* USING (SELECT * FROM staging WHERE timestamp >= @lb AND timestamp < @ub)
MergeSource(stg, w) == SelectSeq(stg, LAMBDA r : InWindow(r.timestamp, w))

\* ON target.record_id = source.record_id AND target.timestamp >= @lb AND target.timestamp < @ub
MergeOn(t, s, w) == t.record_id = s.record_id /\ InWindow(t.timestamp, w)

SourceMatches(t, src, w) == {i \in DOMAIN src : MergeOn(t, src[i], w)}

\* WHEN MATCHED THEN UPDATE SET every column except created_at
MergeUpdate(t, s) == [s EXCEPT !.created_at = t.created_at]

\* the warehouse rejects a MERGE in which one target row matches several source rows
MergeAmbiguous(dest, src, w) ==
    \E t \in BagToSet(dest) : Cardinality(SourceMatches(t, src, w)) > 1

MergedTarget(t, src, w) ==
    IF SourceMatches(t, src, w) = {} THEN t
    ELSE MergeUpdate(t, src[CHOOSE i \in SourceMatches(t, src, w) : TRUE])

InsertEverySourceRow(dest, src, w) == DOMAIN src

\* WHEN NOT MATCHED THEN INSERT ROW
MergeInserted(dest, src, w) ==
    {i \in DOMAIN src : \A t \in BagToSet(dest) : ~MergeOn(t, src[i], w)}

MergeResult(dest, src, w) ==
    LET T == BagToSet(dest)
        ins == MergeInserted(dest, src, w)
        out == {MergedTarget(t, src, w) : t \in T} \cup {src[i] : i \in ins}
        cnt(r) == SumF([t \in T |-> IF MergedTarget(t, src, w) = r THEN dest[t] ELSE 0], T)
                  + Cardinality({i \in ins : src[i] = r})
    IN [r \in out |-> cnt(r)]

----------------------------------------------------------------------------
(* upsert_batch, step by step *)

NoResult == [rows_processed |-> 0, method |-> NULL, staging_table |-> NULL]

IdleCall ==
    [op |-> "none", pc |-> "idle", df |-> [cols |-> {}, rows |-> <<>>], sid |-> NULL,
     window |-> [lb |-> 0, ub |-> 0], before |-> EmptyBag, existed |-> FALSE, n |-> 0,
     again |-> FALSE, use |-> FALSE, sent |-> <<>>, failed |-> {}, prevValid |-> FALSE,
     prevKeys |-> {},
     result |-> NoResult, error |-> NULL]

CallEnded == call.pc \in {"idle", "returned", "raised", "crashed"}

\* a new call record; again: the call before it was the same operation on the same
\* batch and returned normally, and nothing wrote to the table in between
NewCall(op, df) ==
    [IdleCall EXCEPT !.op = op, !.df = df, !.before = destRows,
                     !.existed = destExists, !.n = call.n + 1,
                     !.again = (call.op = op /\ call.pc = "returned" /\ call.df = df)]

\* lines 28-63: the empty batch, the table lookup, the record_id check, the
\* column alignment and the creation of the staging table
UpsertBegin(df, sid) ==
    /\ CallEnded
    /\ call.n < MaxCalls
    /\ LET c == NewCall("upsert", df) IN
       IF DfEmpty(df) THEN
           /\ call' = [c EXCEPT !.pc = "returned",
                         !.result = [rows_processed |-> 0, method |-> "merge",
                                     staging_table |-> NULL]]
           /\ UNCHANGED <<staging, onlyMerge>>
       ELSE IF ~destExists THEN
           /\ call' = [c EXCEPT !.pc = "raised", !.error = "NotFound"]
           /\ UNCHANGED <<staging, onlyMerge>>
       ELSE IF "record_id" \notin df.cols THEN
           /\ call' = [c EXCEPT !.pc = "raised", !.error = "ValueError"]
           /\ UNCHANGED <<staging, onlyMerge>>
       ELSE IF sid \in DOMAIN staging THEN
           \* create_table on a name that exists: Conflict, raised before the try block
           /\ call' = [c EXCEPT !.pc = "raised", !.error = "Conflict"]
           /\ UNCHANGED <<staging, onlyMerge>>
       ELSE
           /\ call' = [c EXCEPT !.pc = "staged", !.sid = sid]
           /\ staging' = (sid :> <<>>) @@ staging
           /\ onlyMerge' = (onlyMerge /\ UniqueRecordIds(df.rows))
    /\ UNCHANGED <<destExists, destRows, snVars, pureVars>>

\* lines 69-71: the load job into the staging table, WRITE_TRUNCATE
UpsertLoad(ok) ==
    /\ call.op = "upsert" /\ call.pc = "staged"
    /\ IF ok
       THEN /\ staging' = [staging EXCEPT ![call.sid] = call.df.rows]
            /\ call' = [call EXCEPT !.pc = "loaded"]
       ELSE /\ call' = [call EXCEPT !.pc = "failed", !.error = "LoadFailed"]
            /\ UNCHANGED staging
    /\ UNCHANGED <<destExists, destRows, onlyMerge, snVars, pureVars>>

\* lines 73-128: the window and the MERGE query
UpsertMerge(ok, today) ==
    /\ call.op = "upsert" /\ call.pc = "loaded"
    /\ LET w == MergeWindow(call.df.rows, today)
           src == MergeSource(staging[call.sid], w)
       IN IF ok /\ ~MergeAmbiguous(destRows, src, w)
          THEN /\ destRows' = MergeResult(destRows, src, w)
               /\ call' = [call EXCEPT !.pc = "merged", !.window = w]
          ELSE /\ call' = [call EXCEPT !.pc = "failed", !.window = w, !.error = "MergeFailed"]
               /\ UNCHANGED destRows
    /\ UNCHANGED <<destExists, staging, onlyMerge, snVars, pureVars>>

\* client.delete_table(staging_table_id, not_found_ok=True)
DeleteTable(stg, sid) == [s \in DOMAIN stg \ {sid} |-> stg[s]]

CleanupOnSuccessOnly(stg, sid, pc) == IF pc = "merged" THEN DeleteTable(stg, sid) ELSE stg

\* the finally block: the staging table is deleted whatever the try block did
\* (pc tells whether it ended normally or with an exception)
FinallyCleanup(stg, sid, pc) == DeleteTable(stg, sid)

\* lines 130-140: the finally block deletes the staging table, then the call
\* returns its result or lets the exception out
UpsertCleanup ==
    /\ call.op = "upsert" /\ call.pc \in {"merged", "failed"}
    /\ staging' = FinallyCleanup(staging, call.sid, call.pc)
    /\ IF call.pc = "merged"
       THEN /\ call' = [call EXCEPT !.pc = "returned",
                          !.result = [rows_processed |-> Len(call.df.rows), method |-> "merge",
                                      staging_table |-> call.sid]]
       ELSE /\ call' = [call EXCEPT !.pc = "raised"]
    /\ UNCHANGED <<destExists, destRows, onlyMerge, snVars, pureVars>>

\* the process is killed in the middle of a call: nothing of the call runs any
\* more and its locals are lost; what it wrote to the warehouse stays
Crash ==
    /\ ~CallEnded
    /\ call' = [IdleCall EXCEPT !.op = call.op, !.pc = "crashed", !.n = call.n]
    /\ UNCHANGED <<destExists, destRows, staging, onlyMerge, snVars, pureVars>>

\* uuid4().hex[:8] is random: it is some unused name, or it collides with the
\* name of a table that exists (one unused name stands for all of them)
UuidChoices ==
    DOMAIN staging \cup
    (IF StagingIds \subseteq DOMAIN staging THEN {}
     ELSE {CHOOSE s \in StagingIds : s \notin DOMAIN staging})

----------------------------------------------------------------------------
(* Values of DataFrame cells and their conversion for BigQuery *)

\* the columns that hold pandas Timestamps; their NULL is NoTs
TimestampColumns == {"timestamp", "created_at", "updated_at"}

\* pd.isna: None ("NULL") and the float NaN / pd.NA ("nan")
IsNa(v) == v \in {NULL, "nan"}

\* hasattr(value, "item"): a numpy scalar, written "np." before the Python value
HasItem(v) == Len(v) > 3 /\ SubSeq(v, 1, 3) = "np."

Item(v) == SubSeq(v, 4, Len(v))

\* _normalize_key_value
NormalizeKeyValue(v) ==
    IF IsNa(v) THEN NULL ELSE IF HasItem(v) THEN Item(v) ELSE v

\* one cell of _dataframe_to_rows / the row conversion loop of upload
ToBqValue(col, v) ==
    IF col \in TimestampColumns THEN v
    ELSE IF IsNa(v) THEN NULL ELSE IF HasItem(v) THEN Item(v) ELSE v

\* _dataframe_to_rows
DataframeToRows(rows) ==
    [i \in DOMAIN rows |-> [c \in DOMAIN rows[i] |-> ToBqValue(c, rows[i][c])]]

\* the rows of a sequence at the positions of idx, in their order
RECURSIVE Pick(_, _)
Pick(rows, idx) ==
    IF rows = <<>> THEN <<>>
    ELSE LET rest == Pick(Tail(rows), {i - 1 : i \in idx \ {1}})
         IN IF 1 \in idx THEN <<Head(rows)>> \o rest ELSE rest

\* client.insert_rows: the rows at the positions of failed (any set of positions
\* of the batch) are rejected and reported, the others are in the table
InsertRows(dest, rows, failed) == dest (+) BagOfSeq(Pick(rows, DOMAIN rows \ failed))

InsertErrors(rows, failed) ==
    Pick([i \in DOMAIN rows |-> [index |-> i, errors |-> "invalid"]], failed)

\* the error keys of a streaming result: "errors": 0 when insert_rows reported
\* nothing, else the reported list and its length
ErrorsSwallowed(errors) == [errors |-> 0]

ErrorFields(errors) ==
    IF errors = <<>> THEN [errors |-> 0]
    ELSE [errors |-> errors, error_count |-> Len(errors)]

----------------------------------------------------------------------------
(* The write strategies that are one call to BigQuery *)

\* the frames the strategies are compared on
WriteBatches == {[cols |-> TargetColumns, rows |-> rs] : rs \in UniqueFrames(1)}

\* insert_batch: WRITE_APPEND load into a table that must exist
InsertBatch(df, ok) ==
    /\ CallEnded
    /\ call.n < MaxCalls
    /\ LET c == NewCall("insert", df) IN
       IF DfEmpty(df) THEN
           /\ call' = [c EXCEPT !.pc = "returned",
                         !.result = [rows_processed |-> 0, method |-> "insert", job_id |-> NULL]]
           /\ UNCHANGED <<destRows, onlyMerge>>
       ELSE IF ~destExists THEN
           /\ call' = [c EXCEPT !.pc = "raised", !.error = "NotFound"]
           /\ UNCHANGED <<destRows, onlyMerge>>
       ELSE IF ~ok THEN
           /\ call' = [c EXCEPT !.pc = "raised", !.error = "LoadFailed"]
           /\ UNCHANGED <<destRows, onlyMerge>>
       ELSE
           /\ destRows' = destRows (+) BagOfSeq(df.rows)
           /\ onlyMerge' = FALSE
           /\ call' = [c EXCEPT !.pc = "returned",
                         !.result = [rows_processed |-> Len(df.rows), method |-> "insert",
                                     job_id |-> "job"]]
    /\ UNCHANGED <<destExists, staging, snVars, pureVars>>

\* streaming_method_v1.upload: insert_rows into a table that must exist
StreamUpload(df) ==
    /\ CallEnded
    /\ call.n < MaxCalls
    /\ LET c == NewCall("stream", df)
           rows == DataframeToRows(df.rows)
       IN
       IF DfEmpty(df) THEN
           /\ call' = [c EXCEPT !.pc = "returned",
                         !.result = [rows_processed |-> 0, method |-> "streaming", errors |-> 0]]
           /\ UNCHANGED <<destRows, onlyMerge>>
       ELSE IF ~destExists THEN
           /\ call' = [c EXCEPT !.pc = "raised", !.error = "RuntimeError"]
           /\ UNCHANGED <<destRows, onlyMerge>>
       ELSE \E failed \in SUBSET DOMAIN rows :
           /\ destRows' = InsertRows(destRows, rows, failed)
           /\ onlyMerge' = FALSE
           /\ call' = [c EXCEPT !.pc = "returned", !.sent = rows, !.failed = failed,
                         !.result = [rows_processed |-> Len(df.rows), method |-> "streaming"]
                                    @@ ErrorFields(InsertErrors(rows, failed))]
    /\ UNCHANGED <<destExists, staging, snVars, pureVars>>

\* archive _upload_batch: the lookup failure is caught and the load job, given the
\* provided schema, creates the table; every exception becomes an error result
ArchiveUploadBatch(df, ok) ==
    /\ CallEnded
    /\ call.n < MaxCalls
    /\ LET c == NewCall("archive_batch", df) IN
       IF ~ok THEN
           /\ call' = [c EXCEPT !.pc = "returned",
                         !.result = [rows_processed |-> 0, method |-> "batch",
                                     error |-> "LoadFailed", job_id |-> "job"]]
           /\ UNCHANGED <<destExists, destRows, onlyMerge>>
       ELSE
           /\ destExists' = TRUE
           /\ destRows' = destRows (+) BagOfSeq(df.rows)
           /\ onlyMerge' = FALSE
           /\ call' = [c EXCEPT !.pc = "returned",
                         !.result = [rows_processed |-> Len(df.rows), method |-> "batch",
                                     job_id |-> "job", table_existed |-> destExists]]
    /\ UNCHANGED <<staging, snVars, pureVars>>

----------------------------------------------------------------------------
(* streaming_method_bq_snapshot: the streaming upload with a snapshot of the *)
(* key tuples of the last batch                                              *)

\* the schema of the streamed table
StreamFields == {"entity_id", "record_id", "payload"}

SRow(e, r, p) == [entity_id |-> e, record_id |-> r, payload |-> p]

\* rows of realtime batches: plain values, a numpy scalar and NaN in a key
\* column, and two rows that differ outside the normalized key only
StreamRows ==
    {SRow("V1", "R1", "a"), SRow("np.V1", "R1", "b"), SRow("nan", "R2", "a")}

StreamBatches ==
    {[cols |-> StreamFields, rows |-> rs] :
        rs \in {<<>>} \cup {<<a>> : a \in StreamRows} \cup {<<a, b>> : a, b \in StreamRows}}

\* snapshot_key_columns: none, one column, the default pair, and a list with a
\* column the table does not have
KeyColumnChoices ==
    {<<>>, <<"entity_id">>, <<"entity_id", "record_id">>, <<"entity_id", "trip_id">>}

\* the normalized key tuple of a row
KeyOf(row, kc) == [i \in DOMAIN kc |-> NormalizeKeyValue(row[kc[i]])]

\* source_df[key_columns].applymap(_normalize_key_value).drop_duplicates()
KeyProjection(rows, kc) == {KeyOf(rows[i], kc) : i \in DOMAIN rows}

\* _validate_key_columns
KeyColumnsValid(kc) == Range(kc) \subseteq StreamFields

\* _ensure_snapshot_table (the snapshot schema is built from the same key list)
EnsureSnapshotTable(sn, kc) == [sn EXCEPT !.exists = TRUE]

NoKeysLoaded(sn, kc) == {}

\* _load_snapshot_keys
LoadSnapshotKeys(sn, kc) == IF kc = <<>> THEN {} ELSE sn.rows

\* the loop of _drop_seen_rows: a row is dropped and counted when its key is in
\* seen, else it is kept and its key joins seen
RECURSIVE DropSeen(_, _, _)
DropSeen(rows, seen, kc) ==
    IF rows = <<>> THEN [rows |-> <<>>, skipped |-> 0]
    ELSE LET key == KeyOf(Head(rows), kc) IN
         IF key \in seen
         THEN LET r == DropSeen(Tail(rows), seen, kc)
              IN [rows |-> r.rows, skipped |-> r.skipped + 1]
         ELSE LET r == DropSeen(Tail(rows), seen \cup {key}, kc)
              IN [rows |-> <<Head(rows)>> \o r.rows, skipped |-> r.skipped]

\* the filter without seen.add(key): only the keys of existing_keys are dropped
DropRowsOfExistingKeys(rows, existing, kc) ==
    [rows |-> SelectSeq(rows, LAMBDA r : KeyOf(r, kc) \notin existing),
     skipped |-> Len(SelectSeq(rows, LAMBDA r : KeyOf(r, kc) \in existing))]

\* _drop_seen_rows
DropSeenRows(rows, existing, kc) ==
    IF kc = <<>> THEN [rows |-> rows, skipped |-> 0] ELSE DropSeen(rows, existing, kc)

SnapshotOfFiltered(input, filtered) == filtered

\* line 54: snapshot_source_df = df, taken before the filter
SnapshotSource(input, filtered) == input

\* _overwrite_snapshot: WRITE_TRUNCATE load of the deduplicated key frame
OverwriteSnapshot(sn, rows, kc, now) ==
    IF kc = <<>> THEN sn
    ELSE [exists |-> TRUE, rows |-> KeyProjection(rows, kc), captured_at |-> now]

\* the snapshot overwritten whatever insert_rows reported
SnapshotOverwrittenAnyway(sn, rows, kc, now, failed) == OverwriteSnapshot(sn, rows, kc, now)

\* lines 83-102: the snapshot is overwritten only when insert_rows reported no error
SnapshotAfterInsert(sn, rows, kc, now, failed) ==
    IF failed = {} THEN OverwriteSnapshot(sn, rows, kc, now) ELSE sn

\* the call before this one was a snapshot upload that returned without insert errors
PrevUploadClean ==
    /\ call.op = "snapshot_upload" /\ call.use /\ call.pc = "returned"
    /\ "error_count" \notin DOMAIN call.result

\* upload(df, ..., use_snapshot, snapshot_key_columns)
SnapshotUpload(df, use) ==
    /\ CallEnded
    /\ call.n < MaxCalls
    /\ LET c == [NewCall("snapshot_upload", df) EXCEPT
                    !.use = use, !.prevValid = PrevUploadClean,
                    !.prevKeys = IF KeyColumnsValid(keyCols)
                                 THEN KeyProjection(call.df.rows, keyCols) ELSE {}]
           ensured == EnsureSnapshotTable(snap, keyCols)
           kept == IF use THEN DropSeenRows(df.rows, LoadSnapshotKeys(ensured, keyCols), keyCols)
                   ELSE [rows |-> df.rows, skipped |-> 0]
           rows == DataframeToRows(kept.rows)
           source == SnapshotSource(df.rows, kept.rows)
       IN
       IF DfEmpty(df) THEN
           /\ call' = [c EXCEPT !.pc = "returned",
                         !.result = [rows_processed |-> 0, method |-> "streaming", errors |-> 0,
                                     skipped_duplicates |-> 0]]
           /\ UNCHANGED <<destRows, onlyMerge, snap>>
       ELSE IF ~destExists THEN
           /\ call' = [c EXCEPT !.pc = "raised", !.error = "RuntimeError"]
           /\ UNCHANGED <<destRows, onlyMerge, snap>>
       ELSE IF use /\ ~KeyColumnsValid(keyCols) THEN
           /\ call' = [c EXCEPT !.pc = "raised", !.error = "ValueError"]
           /\ UNCHANGED <<destRows, onlyMerge, snap>>
       ELSE IF use /\ kept.rows = <<>> THEN
           /\ snap' = OverwriteSnapshot(ensured, source, keyCols, c.n)
           /\ call' = [c EXCEPT !.pc = "returned",
                         !.result = [rows_processed |-> 0, method |-> "streaming", errors |-> 0,
                                     skipped_duplicates |-> kept.skipped]]
           /\ UNCHANGED <<destRows, onlyMerge>>
       ELSE \E failed \in SUBSET DOMAIN rows :
           /\ destRows' = InsertRows(destRows, rows, failed)
           /\ onlyMerge' = FALSE
           /\ snap' = IF ~use THEN snap
                      ELSE SnapshotAfterInsert(ensured, source, keyCols, c.n, failed)
           /\ call' = [c EXCEPT !.pc = "returned", !.sent = rows, !.failed = failed,
                         !.result = [rows_processed |-> Len(rows), method |-> "streaming",
                                     skipped_duplicates |-> kept.skipped]
                                    @@ ErrorFields(InsertErrors(rows, failed))]
    /\ UNCHANGED <<destExists, staging, keyCols, pureVars>>

----------------------------------------------------------------------------
(* _drop_seen_rows on its own *)

\* the rows the filter is applied to: as StreamRows, with None in a key column
\* and a second plain key
FilterRows ==
    StreamRows \cup {SRow("V1", "R1", "b"), SRow("V2", "R2", "a"), SRow(NULL, "R2", "a")}

FilterKeyColumns == {<<>>, <<"entity_id">>, <<"entity_id", "record_id">>}

\* existing_keys is what _load_snapshot_keys returned for the same key list: a
\* set of normalized key tuples, empty when the key list is empty
FilterInputs ==
    UNION {{[rows |-> rs, existing |-> S, kc |-> kc] :
               rs \in SeqsUpTo(FilterRows, MaxFilterRows),
               S \in SUBSET LoadSnapshotKeys([rows |-> {KeyOf(r, kc) : r \in FilterRows}], kc)} :
           kc \in FilterKeyColumns}

NoOutput == [done |-> FALSE, rows |-> <<>>, skipped |-> 0]

FtIdle == ftIn = [rows |-> <<>>, existing |-> {}, kc |-> <<>>] /\ ftOut = NoOutput

ApplyDropSeenRows ==
    /\ ~ftOut.done
    /\ ftOut' = [done |-> TRUE] @@ DropSeenRows(ftIn.rows, ftIn.existing, ftIn.kc)
    /\ UNCHANGED <<whVars, snVars, scVars, njVars, cnVars, ftIn, clVars, ddVars, coVars, trVars>>

----------------------------------------------------------------------------
(* The field contract of trip updates, cut down to six of its fields *)

\* the fields of TripUpdates in their declared order
SchemaFields == <<"record_id", "entity_id", "timestamp", "timestamp_s", "route_id", "trip_id">>

\* pa.Field(nullable=False)
NonNullable == {"record_id", "entity_id", "timestamp", "trip_id"}

\* Series[pd.Int64Dtype]
IntegerFields == {"timestamp_s"}

COLS_TIMESTAMP == {"timestamp", "created_at", "updated_at"}
COLS_VOLATILE == {"record_id", "timestamp", "timestamp_s", "created_at", "updated_at"}
COLS_ENTITY == <<"vehicle_id", "trip_id", "stop_id">>

COLS_MAPPING ==
    [timestamp   |-> <<"timestamp">>,
     timestamp_s |-> <<"trip_update.timestamp", "timestamp">>,
     route_id    |-> <<"trip_update.trip.route_id">>,
     trip_id     |-> <<"trip_update.trip.trip_id", "tripUpdate.trip.tripId">>]

\* the trip updates contract as the stages read it: the fields of the class and
\* the attributes of its module (the module has no COLS_FILTERNA)
TripUpdates ==
    [fields |-> SchemaFields, nonNullable |-> NonNullable, integerFields |-> IntegerFields,
     COLS_TIMESTAMP |-> COLS_TIMESTAMP, COLS_VOLATILE |-> COLS_VOLATILE,
     COLS_ENTITY |-> COLS_ENTITY, COLS_FILTERNA |-> <<>>, COLS_MAPPING |-> COLS_MAPPING]

\* the vehicle positions contract, cut down to six of its fields
VehiclePositions ==
    [fields |-> <<"record_id", "entity_id", "timestamp", "timestamp_s", "vehicle_id", "route_id">>,
     nonNullable |-> {"record_id", "entity_id", "timestamp"},
     integerFields |-> {"timestamp_s"},
     COLS_TIMESTAMP |-> {"timestamp", "created_at", "updated_at"},
     COLS_VOLATILE |-> {"record_id", "created_at", "updated_at"},
     COLS_ENTITY |-> <<"vehicle_id">>,
     COLS_FILTERNA |-> <<"vehicle_id">>,
     COLS_MAPPING |->
        [vehicle_id  |-> <<"vehicle.vehicle.id">>,
         route_id    |-> <<"vehicle.trip.route_id", "vehicle.trip.routeId">>,
         timestamp   |-> <<"vehicle.timestamp", "timestamp">>,
         timestamp_s |-> <<"vehicle.timestamp", "timestamp">>]]

\* DATASET_SCHEMA_MAPPING, the realtime datasets
DATASET_SCHEMA_MAPPING ==
    ("vehicle-positions" :> VehiclePositions) @@ ("trip-updates" :> TripUpdates)

\* get_schema_class
GetSchemaClass(name) ==
    IF name \in DOMAIN DATASET_SCHEMA_MAPPING THEN DATASET_SCHEMA_MAPPING[name] ELSE NULL

\* the orders list(target_columns) can have: a set of str is iterated in the
\* order of the hashes, which are salted anew in every process
SetOrders ==
    {o \in [1..Cardinality(DOMAIN COLS_MAPPING) -> DOMAIN COLS_MAPPING] :
        \A i, j \in DOMAIN o : o[i] = o[j] => i = j}

\* the same for the mapped targets of any contract
SetOrdersOf(schema_class) ==
    LET targets == DOMAIN schema_class.COLS_MAPPING IN
    {o \in [1..Cardinality(targets) -> targets] : \A i, j \in DOMAIN o : o[i] = o[j] => i = j}

----------------------------------------------------------------------------
(* DataFrames of the cleaning pipeline: cols is the column order, every row *)
(* is a function from the columns to values                                 *)

EmptyFrame == [cols |-> <<>>, rows |-> <<>>]

HasColumn(df, c) == c \in Range(df.cols)

\* df[c] = vals (one value for each row), appended when c is a new column
SetColumn(df, c, vals) ==
    [cols |-> IF HasColumn(df, c) THEN df.cols ELSE Append(df.cols, c),
     rows |-> [i \in DOMAIN df.rows |->
                 [k \in Range(df.cols) \cup {c} |->
                     IF k = c THEN vals[i] ELSE df.rows[i][k]]]]

\* df[cs] for a list of columns
SelectColumns(df, cs) ==
    [cols |-> cs,
     rows |-> [i \in DOMAIN df.rows |-> [k \in Range(cs) |-> df.rows[i][k]]]]

\* str(value) of a cell
StrOf(v) == IF v = NULL THEN "None" ELSE v

RECURSIVE Concat(_)
Concat(ss) == IF ss = <<>> THEN "" ELSE Head(ss) \o Concat(Tail(ss))

RECURSIVE Join(_, _)
Join(sep, ss) ==
    IF ss = <<>> THEN "" ELSE IF Len(ss) = 1 THEN ss[1] ELSE ss[1] \o sep \o Join(sep, Tail(ss))

\* hashlib.md5(x).hexdigest()[:16], taken to be free of collisions
Md5(x) == "md5(" \o x \o ")"

----------------------------------------------------------------------------
(* The stages of clean_and_validate_dataframe *)

\* next((path for path in source_paths if path in df.columns), None)
SourceColumn(df, schema_class, target) ==
    LET paths == IF target \in DOMAIN schema_class.COLS_MAPPING
                 THEN schema_class.COLS_MAPPING[target] ELSE <<>>
        found == SelectSeq(paths, LAMBDA path : HasColumn(df, path))
    IN IF found = <<>> THEN NULL ELSE Head(found)

\* apply_schema_field_mappings: the mapped target columns only, in the order
\* in which the process iterates the set target_columns
ApplySchemaFieldMappings(df, schema_class, order) ==
    LET targets == {t \in Range(schema_class.fields) : SourceColumn(df, schema_class, t) # NULL}
        kept == SelectSeq(order, LAMBDA t : t \in targets)
    IN IF DfEmpty(df) \/ targets = {} THEN df
       ELSE [cols |-> kept,
             rows |-> [i \in DOMAIN df.rows |->
                         [t \in targets |-> df.rows[i][SourceColumn(df, schema_class, t)]]]]

EndsWithS(c) == Len(c) > 2 /\ SubSeq(c, Len(c) - 1, Len(c)) = "_s"

\* pd.to_datetime(pd.to_numeric(v, errors='coerce'), unit='s', utc=True, errors='coerce')
EpochToUtc(v) ==
    IF v = "100" THEN "T100" ELSE IF v = "100.5" THEN "T100.5" ELSE NULL

ConvertEpochColumn(df, c) ==
    IF EndsWithS(c)
    THEN SetColumn(df, SubSeq(c, 1, Len(c) - 2),
                   [i \in DOMAIN df.rows |-> EpochToUtc(df.rows[i][c])])
    ELSE df

RECURSIVE ConvertEpochColumns(_, _)
ConvertEpochColumns(df, cs) ==
    IF cs = <<>> THEN df ELSE ConvertEpochColumns(ConvertEpochColumn(df, Head(cs)), Tail(cs))

\* convert_epoch_timestamps_to_utc
ConvertEpochTimestampsToUtc(df) ==
    IF DfEmpty(df) THEN df ELSE ConvertEpochColumns(df, df.cols)

\* pd.to_numeric(v, errors='coerce'), NaN when the fractional part is not zero
ToNullableInt(v) == IF v = "100" THEN "100" ELSE NULL

CoerceIntegerColumn(df, schema_class, c) ==
    IF c \in schema_class.integerFields /\ HasColumn(df, c)
    THEN SetColumn(df, c, [i \in DOMAIN df.rows |-> ToNullableInt(df.rows[i][c])])
    ELSE df

RECURSIVE CoerceIntegerColumns(_, _, _)
CoerceIntegerColumns(df, schema_class, cs) ==
    IF cs = <<>> THEN df
    ELSE CoerceIntegerColumns(CoerceIntegerColumn(df, schema_class, Head(cs)), schema_class, Tail(cs))

\* coerce_integer_fields_to_nullable_int
CoerceIntegerFieldsToNullableInt(df, schema_class) ==
    IF DfEmpty(df) THEN df ELSE CoerceIntegerColumns(df, schema_class, schema_class.fields)

\* cols_for_hash = [c for c in result_df.columns if c not in exclude_cols]
ColsForHash(df, schema_class) ==
    SelectSeq(df.cols, LAMBDA c : c \notin schema_class.COLS_VOLATILE)

\* result_df[cols_for_hash].astype(str).sum(axis=1), then md5
RecordIdOf(row, cols) == Md5(Concat([i \in DOMAIN cols |-> StrOf(row[cols[i]])]))

\* generate_record_id
GenerateRecordId(df, schema_class) ==
    IF DfEmpty(df) \/ schema_class.COLS_VOLATILE = {} \/ ColsForHash(df, schema_class) = <<>>
    THEN df
    ELSE SetColumn(df, "record_id",
                   [i \in DOMAIN df.rows |-> RecordIdOf(df.rows[i], ColsForHash(df, schema_class))])

\* generate_entity_id
GenerateEntityId(df, schema_class) ==
    LET available == SelectSeq(schema_class.COLS_ENTITY, LAMBDA c : HasColumn(df, c)) IN
    IF DfEmpty(df) \/ available = <<>> THEN df
    ELSE SetColumn(df, "entity_id",
            [i \in DOMAIN df.rows |->
                Md5(Join("|", [k \in DOMAIN available |-> StrOf(df.rows[i][available[k]])]))])

\* df.drop_duplicates(subset=['record_id'], keep='first')
RECURSIVE DropDuplicates(_, _)
DropDuplicates(rows, seen) ==
    IF rows = <<>> THEN <<>>
    ELSE IF Head(rows).record_id \in seen THEN DropDuplicates(Tail(rows), seen)
    ELSE <<Head(rows)>> \o DropDuplicates(Tail(rows), seen \cup {Head(rows).record_id})

\* the same with keep='last'
DeduplicateKeepLast(df) ==
    IF DfEmpty(df) \/ ~HasColumn(df, "record_id") THEN df
    ELSE [df EXCEPT !.rows =
            Pick(df.rows, {i \in DOMAIN df.rows :
                             \A j \in DOMAIN df.rows :
                                 df.rows[j].record_id = df.rows[i].record_id => j <= i})]

\* deduplicate_by_record_id
DeduplicateByRecordId(df) ==
    IF DfEmpty(df) \/ ~HasColumn(df, "record_id") THEN df
    ELSE [df EXCEPT !.rows = DropDuplicates(df.rows, {})]

AddMissingField(df, c) ==
    IF HasColumn(df, c) THEN df ELSE SetColumn(df, c, [i \in DOMAIN df.rows |-> NULL])

RECURSIVE AddMissingFields(_, _)
AddMissingFields(df, cs) ==
    IF cs = <<>> THEN df ELSE AddMissingFields(AddMissingField(df, Head(cs)), Tail(cs))

\* add_missing_schema_fields: the default of every type is a null
AddMissingSchemaFields(df, schema_class) ==
    IF DfEmpty(df) THEN df ELSE AddMissingFields(df, schema_class.fields)

\* drop_extra_columns_not_in_schema
DropExtraColumnsNotInSchema(df, schema_class) ==
    IF DfEmpty(df) THEN df
    ELSE SelectColumns(df, SelectSeq(df.cols, LAMBDA c : c \in Range(schema_class.fields)))

\* order_columns_by_schema
OrderColumnsBySchema(df, schema_class) ==
    LET ordered == SelectSeq(schema_class.fields, LAMBDA c : HasColumn(df, c)) IN
    IF DfEmpty(df) \/ ordered = <<>> THEN df ELSE SelectColumns(df, ordered)

\* schema_class.to_schema().validate(df): a field that is not a column, or a
\* null in a field that is not nullable
ValidationFails(df, schema_class) ==
    \/ \E c \in Range(schema_class.fields) : ~HasColumn(df, c)
    \/ \E i \in DOMAIN df.rows, c \in schema_class.nonNullable : IsNa(df.rows[i][c])

\* pd.to_datetime(v, utc=True, errors='coerce').dt.floor('s')
FloorToSeconds(v) == IF v \in {"T100", "T100.5"} THEN "T100" ELSE NULL

CoerceTimestampColumn(df, schema_class, c) ==
    IF c \in schema_class.COLS_TIMESTAMP /\ HasColumn(df, c)
    THEN SetColumn(df, c, [i \in DOMAIN df.rows |-> FloorToSeconds(df.rows[i][c])])
    ELSE df

RECURSIVE CoerceTimestampColumns(_, _, _)
CoerceTimestampColumns(df, schema_class, cs) ==
    IF cs = <<>> THEN df
    ELSE CoerceTimestampColumns(CoerceTimestampColumn(df, schema_class, Head(cs)),
                                schema_class, Tail(cs))

\* coerce_timestamp_columns_to_utc
CoerceTimestampColumnsToUtc(df, schema_class) ==
    IF DfEmpty(df) THEN df ELSE CoerceTimestampColumns(df, schema_class, schema_class.fields)

\* filter_null_rows_by_columns: the rows without a null in the columns of
\* COLS_FILTERNA that the DataFrame has
FilterNullRowsByColumns(df, schema_class) ==
    LET present == {c \in Range(schema_class.COLS_FILTERNA) : HasColumn(df, c)} IN
    IF DfEmpty(df) \/ present = {} THEN df
    ELSE [df EXCEPT !.rows = SelectSeq(df.rows, LAMBDA r : \A c \in present : ~IsNa(r[c]))]

\* stages 1 to 6; the modelled fields have no precision and no
\* CATEGORICAL_MAPPING entry: stages 3 and 4 return df
BeforeDedup(df, schema_class, order) ==
    GenerateEntityId(
      GenerateRecordId(
        CoerceIntegerFieldsToNullableInt(
          ConvertEpochTimestampsToUtc(
            ApplySchemaFieldMappings(df, schema_class, order)),
          schema_class),
        schema_class),
      schema_class)

\* stages 1 to 10
BeforeValidation(df, schema_class, order) ==
    OrderColumnsBySchema(
      DropExtraColumnsNotInSchema(
        AddMissingSchemaFields(
          FilterNullRowsByColumns(
            DeduplicateByRecordId(
              BeforeDedup(df, schema_class, order)),
            schema_class),
          schema_class),
        schema_class),
      schema_class)

\* clean_and_validate_dataframe: the DataFrame it returns, or that it raised
CleanAndValidateDataframe(df, schema_class, order) ==
    IF DfEmpty(df) THEN [status |-> "ok", df |-> df]
    ELSE LET pre == BeforeValidation(df, schema_class, order) IN
         IF ValidationFails(pre, schema_class) THEN [status |-> "raised", df |-> EmptyFrame]
         ELSE [status |-> "ok", df |-> CoerceTimestampColumnsToUtc(pre, schema_class)]

----------------------------------------------------------------------------
(* Processes that clean raw trip update batches *)

RawRow(ts, route, trip) ==
    ("trip_update.timestamp" :> ts) @@ ("trip_update.trip.route_id" :> route)
    @@ ("trip_update.trip.trip_id" :> trip)

\* flattened entities: two that differ in the feed timestamp only, one with
\* the two identifiers exchanged, one without a trip identifier
RawRows ==
    {RawRow("100", "A", "B"), RawRow("100.5", "A", "B"), RawRow("100", "B", "A"),
     RawRow("100", "A", "nan")}

\* the column order of the flattened table follows the key order of the payload
RawColumnOrders ==
    {<<"trip_update.timestamp", "trip_update.trip.route_id", "trip_update.trip.trip_id">>,
     <<"trip_update.trip.trip_id", "trip_update.trip.route_id", "trip_update.timestamp">>}

RawBatches ==
    {[cols |-> o, rows |-> rs] :
        o \in RawColumnOrders,
        rs \in {<<>>} \cup {<<a>> : a \in RawRows} \cup {<<a, b>> : a, b \in RawRows}}

NotRun == [done |-> FALSE, status |-> "none", df |-> EmptyFrame]

\* the values of a cleaned row in the columns that are not volatile
NonVolatileContent(row) == [c \in Range(SchemaFields) \ COLS_VOLATILE |-> row[c]]

IdsOf(df) ==
    {[content |-> NonVolatileContent(df.rows[i]), record_id |-> df.rows[i].record_id] :
        i \in DOMAIN df.rows}

ClIdle ==
    /\ clSeed = SchemaFields
    /\ clIn = EmptyFrame
    /\ clOut = NotRun
    /\ clAgain = NotRun
    /\ clIds = {}
    /\ clRuns = 0

\* a process cleans a raw batch
CleanRaw(df) ==
    /\ clRuns < MaxCalls
    /\ LET out == CleanAndValidateDataframe(df, TripUpdates, clSeed) IN
       /\ clOut' = [done |-> TRUE] @@ out
       /\ clIds' = clIds \cup IdsOf(out.df)
    /\ clIn' = df
    /\ clAgain' = NotRun
    /\ clRuns' = clRuns + 1
    /\ UNCHANGED <<whVars, snVars, scVars, njVars, cnVars, ftVars, ddVars, coVars, trVars, clSeed>>

\* the DataFrame the pipeline returned is handed to the pipeline again
CleanAgain ==
    /\ clOut.done /\ clOut.status = "ok"
    /\ ~clAgain.done
    /\ clAgain' = [done |-> TRUE] @@ CleanAndValidateDataframe(clOut.df, TripUpdates, clSeed)
    /\ UNCHANGED <<whVars, snVars, scVars, njVars, cnVars, ftVars, ddVars, coVars, trVars, clSeed, clIn, clOut, clIds, clRuns>>

\* the process ends and another one starts, with its own hash salt
Restart(order) ==
    /\ clOut.done
    /\ clRuns < MaxCalls
    /\ clSeed' = order
    /\ clIn' = EmptyFrame
    /\ clOut' = NotRun
    /\ clAgain' = NotRun
    /\ UNCHANGED <<whVars, snVars, scVars, njVars, cnVars, ftVars, ddVars, coVars, trVars, clIds, clRuns>>

----------------------------------------------------------------------------
(* deduplicate_by_record_id inside the pipeline *)

\* raw batches of up to MaxDedupRows rows, in one column order
\* two entities whose identifiers differ and read the same when written one
\* after the other
AdjacentRows == <<RawRow("100", "A", "BC"), RawRow("100", "AB", "C")>>

DedupBatches ==
    {[cols |-> o, rows |-> rs] :
        o \in {CHOOSE c \in RawColumnOrders : TRUE},
        rs \in SeqsUpTo(RawRows, MaxDedupRows) \cup {AdjacentRows}}

NoDedup == [done |-> FALSE, pre |-> EmptyFrame, post |-> EmptyFrame, final |-> NotRun]

DdIdle == ddIn = EmptyFrame /\ ddOut = NoDedup

\* the batch runs through stages 1 to 6, deduplicate_by_record_id is applied,
\* and the pipeline runs to its end
ApplyDeduplicate ==
    /\ ~ddOut.done
    /\ LET pre == BeforeDedup(ddIn, TripUpdates, clSeed) IN
       ddOut' = [done |-> TRUE, pre |-> pre, post |-> DeduplicateByRecordId(pre),
                 final |-> [done |-> TRUE] @@ CleanAndValidateDataframe(ddIn, TripUpdates, clSeed)]
    /\ UNCHANGED <<whVars, snVars, scVars, njVars, cnVars, ftVars, clVars, coVars, trVars, ddIn>>

----------------------------------------------------------------------------
(* clean_and_validate_dataframe for the realtime contracts *)

VehicleRow(ts, vid, route) ==
    ("vehicle.timestamp" :> ts) @@ ("vehicle.vehicle.id" :> vid)
    @@ ("vehicle.trip.route_id" :> route)

\* flattened vehicle entities, with and without a vehicle id ("id": null)
VehicleRows ==
    {VehicleRow("100", "V1", "A"), VehicleRow("100", NULL, "A"), VehicleRow("100.5", NULL, "A")}

\* the feed carries the route of the trip, or it does not
VehicleColumns ==
    {<<"vehicle.timestamp", "vehicle.vehicle.id", "vehicle.trip.route_id">>,
     <<"vehicle.timestamp", "vehicle.vehicle.id">>}

VehicleBatches ==
    {SelectColumns([cols |-> <<>>, rows |-> rs], cs) :
        cs \in VehicleColumns,
        rs \in {<<>>} \cup {<<a>> : a \in VehicleRows} \cup {<<a, b>> : a, b \in VehicleRows}}

ColumnInputs ==
    {[dataset |-> "vehicle-positions", df |-> df, order |-> o] :
        df \in VehicleBatches, o \in SetOrdersOf(VehiclePositions)}
    \cup {[dataset |-> "trip-updates", df |-> df, order |-> o] :
        df \in RawBatches, o \in SetOrdersOf(TripUpdates)}

CoIdle ==
    /\ coIn = [dataset |-> "trip-updates", df |-> EmptyFrame, order |-> SchemaFields]
    /\ coOut = NotRun

\* df = clean_and_validate_dataframe(raw_df, get_schema_class(dataset))
ApplyClean ==
    /\ ~coOut.done
    /\ coOut' = [done |-> TRUE]
                 @@ CleanAndValidateDataframe(coIn.df, GetSchemaClass(coIn.dataset), coIn.order)
    /\ UNCHANGED <<whVars, snVars, scVars, njVars, cnVars, ftVars, clVars, ddVars, trVars, coIn>>

----------------------------------------------------------------------------
(* The transform function: objects under the cache prefix and runs over them *)

batch_size == 120

\* the elements of a set of numbers in ascending order
RECURSIVE SortedSeq(_)
SortedSeq(S) == IF S = {} THEN <<>> ELSE <<MinOf(S)>> \o SortedSeq(S \ {MinOf(S)})

\* _list_cache_blobs: the objects under the prefix, sorted by (time_created, name)
ListCacheBlobs == SortedSeq(cache)

\* all_blobs[:n]
FirstN(s, n) == SubSeq(s, 1, IF Len(s) < n THEN Len(s) ELSE n)

\* a cached schedule feed: bytes that are no ZIP, or a ZIP of files; a file is
\* a table with rows ("ok"), a table whose rows fail validation ("invalid"), a
\* table without rows ("empty") or no CSV ("unreadable")
ScheduleFeeds ==
    {[ok |-> FALSE, files |-> <<>>]}
    \cup {[ok |-> TRUE, files |-> fs] :
            fs \in {<<"ok">>, <<"invalid">>, <<"ok", "unreadable">>, <<"empty", "ok">>}}

\* a cached realtime payload: bytes that are no JSON, or the rows of its
\* entities with the hash of their non-volatile content and their timestamp
RealtimePayloads ==
    {[ok |-> FALSE, entities |-> <<>>]}
    \cup {[ok |-> TRUE, entities |-> es] :
            es \in {<<>>,
                    <<[record_id |-> "r1", timestamp |-> 1]>>,
                    <<[record_id |-> "r2", timestamp |-> 1]>>,
                    <<[record_id |-> "r2", timestamp |-> 1],
                      [record_id |-> "r2", timestamp |-> TicksPerDay]>>,
                    <<[record_id |-> "r2", timestamp |-> NoTs]>>}}

PayloadsOf(ds) == IF ds = "schedule" THEN ScheduleFeeds ELSE RealtimePayloads

NoRun ==
    [n |-> 0, kind |-> "none", pc |-> "idle", batch |-> <<>>, status |-> NULL, http_code |-> 0,
     reached |-> {}, errors |-> <<>>, skipped_files |-> <<>>, table_results |-> <<>>,
     deleted |-> {}, deleteFailed |-> {}, copyFailed |-> {}, downloadFailed |-> {},
     loaded |-> {}, df |-> <<>>,
     moved |-> {},
     upsertRaised |-> FALSE, rerun |-> FALSE,
     destBefore |-> EmptyBag, cacheBefore |-> {}, finalBefore |-> {}, error |-> NULL]

TrIdle ==
    /\ dataset = "schedule"
    /\ blobs = <<>>
    /\ cache = {}
    /\ final = {}
    /\ loads = EmptyBag
    /\ run = NoRun

RunEnded == run.pc \in {"idle", "ended", "crashed"}

\* the fetcher writes an object under the cache prefix
Upload(content) ==
    /\ Len(blobs) < MaxBlobs
    /\ blobs' = Append(blobs, content)
    /\ cache' = cache \cup {Len(blobs) + 1}
    /\ UNCHANGED <<whVars, snVars, scVars, njVars, cnVars, ftVars, clVars, ddVars, coVars, dataset, final, loads, run>>

\* run, lines 67-79: the listing, the response when nothing is pending, the batch
NewRun(kind) ==
    [NoRun EXCEPT !.n = run.n + 1, !.kind = kind, !.destBefore = destRows,
                  !.cacheBefore = cache, !.finalBefore = final,
                  !.batch = FirstN(ListCacheBlobs, batch_size)]

\* run, lines 71-77
EmptyResponse(r) == [r EXCEPT !.pc = "ended", !.status = "empty", !.http_code = 200]

\* run, lines 86-88: an exception of the batch becomes the error response
ErrorResponse(r, exc) ==
    [r EXCEPT !.pc = "ended", !.status = "error", !.http_code = 500, !.error = exc]

----------------------------------------------------------------------------
(* process_schedule_batch *)

\* _transform_schedule_df: the cleaned table, or an empty one when the
\* pipeline raised
TransformScheduleDf(file) == IF file = "ok" THEN "rows" ELSE "empty"

\* the loop over archive.namelist(): file i of object b is read, cleaned and
\* appended to its table; insertFails are the files whose insert_batch raises
RECURSIVE ProcessScheduleFiles(_, _, _, _)
ProcessScheduleFiles(b, files, i, insertFails) ==
    IF i > Len(files)
    THEN [tables_loaded |-> <<>>, files_skipped |-> <<>>, errors |-> <<>>]
    ELSE LET rest == ProcessScheduleFiles(b, files, i + 1, insertFails)
             f == <<b, i>>
         IN IF files[i] = "unreadable"
            THEN [rest EXCEPT !.errors = <<[file |-> f, error |-> "read_csv_failed"]>> \o @]
            ELSE IF files[i] = "empty"
            THEN [rest EXCEPT !.files_skipped = <<f>> \o @]
            ELSE IF TransformScheduleDf(files[i]) = "empty"
            THEN [rest EXCEPT !.files_skipped = <<f>> \o @]
            ELSE IF f \in insertFails
            THEN [rest EXCEPT !.errors = <<[file |-> f, error |-> "bq_upload_failed"]>> \o @]
            ELSE [rest EXCEPT !.tables_loaded = <<f>> \o @]

\* _process_schedule_blob
ProcessScheduleBlob(b, insertFails) ==
    IF ~blobs[b].ok
    THEN [tables_loaded |-> <<>>, files_skipped |-> <<>>,
          errors |-> <<[file |-> <<b, 0>>, error |-> "bad_zip"]>>]
    ELSE ProcessScheduleFiles(b, blobs[b].files, 1, insertFails)

\* the round that deletes the object whatever its result
ScheduleRoundDeleteAlways(r, b, downloadFails, insertFails, deleteFails) ==
    IF r.error # NULL THEN r
    ELSE IF b \in downloadFails
         THEN [r EXCEPT !.error = "download_failed", !.downloadFailed = {b}]
    ELSE LET result == ProcessScheduleBlob(b, insertFails) IN
         [r EXCEPT !.reached = @ \cup {b},
                   !.table_results = @ \o result.tables_loaded,
                   !.skipped_files = @ \o result.files_skipped,
                   !.errors = @ \o result.errors,
                   !.deleted = IF b \notin deleteFails THEN @ \cup {b} ELSE @,
                   !.deleteFailed = IF b \in deleteFails THEN @ \cup {b} ELSE @]

\* one round of the loop of process_schedule_batch; an exception of
\* read_blob_bytes ends the loop
ScheduleRound(r, b, downloadFails, insertFails, deleteFails) ==
    IF r.error # NULL THEN r
    ELSE IF b \in downloadFails
         THEN [r EXCEPT !.error = "download_failed", !.downloadFailed = {b}]
    ELSE LET result == ProcessScheduleBlob(b, insertFails) IN
         [r EXCEPT !.reached = @ \cup {b},
                   !.table_results = @ \o result.tables_loaded,
                   !.skipped_files = @ \o result.files_skipped,
                   !.errors = @ \o result.errors,
                   !.deleted = IF result.errors = <<>> /\ b \notin deleteFails
                               THEN @ \cup {b} ELSE @,
                   !.deleteFailed = IF result.errors = <<>> /\ b \in deleteFails
                                    THEN @ \cup {b} ELSE @]

RECURSIVE ScheduleLoop(_, _, _, _, _)
ScheduleLoop(r, batch, downloadFails, insertFails, deleteFails) ==
    IF batch = <<>> THEN r
    ELSE ScheduleLoop(ScheduleRound(r, Head(batch), downloadFails, insertFails, deleteFails),
                      Tail(batch), downloadFails, insertFails, deleteFails)

\* lines 251-265
ScheduleResponse(r) ==
    [r EXCEPT !.pc = "ended",
              !.status = IF r.errors = <<>> THEN "ok" ELSE "partial",
              !.http_code = IF r.errors = <<>> THEN 200 ELSE 500]

\* the files of the objects of a batch
FilesOf(batch) ==
    UNION {{<<batch[k], i>> : i \in DOMAIN blobs[batch[k]].files} : k \in DOMAIN batch}

\* a run of the transform function deployed for the schedule dataset
RunSchedule ==
    /\ dataset = "schedule"
    /\ RunEnded
    /\ run.n < MaxRuns
    /\ LET r == NewRun("schedule") IN
       IF r.batch = <<>> THEN
           /\ run' = EmptyResponse(r)
           /\ UNCHANGED <<cache, loads>>
       ELSE \E downloadFails \in SUBSET Range(r.batch), insertFails \in SUBSET FilesOf(r.batch),
               deleteFails \in SUBSET Range(r.batch) :
            LET done == ScheduleLoop(r, r.batch, downloadFails, insertFails, deleteFails) IN
            /\ loads' = loads (+) BagOfSeq(done.table_results)
            /\ cache' = cache \ done.deleted
            /\ run' = IF done.error # NULL THEN ErrorResponse(done, done.error)
                      ELSE ScheduleResponse(done)
    /\ UNCHANGED <<whVars, snVars, scVars, njVars, cnVars, ftVars, clVars, ddVars, coVars, dataset, blobs, final>>

----------------------------------------------------------------------------
(* process_realtime_batch *)

\* df_raw of one object: created_at and updated_at are the time of the object
BlobFrame(b) ==
    [i \in DOMAIN blobs[b].entities |->
        MkRow(blobs[b].entities[i].record_id, blobs[b].entities[i].timestamp, b)]

\* _transform_blobs: the frames of the objects that download, decode and have
\* entities, concatenated in the order of the batch
RECURSIVE TransformBlobs(_, _)
TransformBlobs(batch, downloadFails) ==
    IF batch = <<>> THEN [rows |-> <<>>, loaded |-> {}]
    ELSE LET b == Head(batch)
             rest == TransformBlobs(Tail(batch), downloadFails)
         IN IF b \in downloadFails \/ ~blobs[b].ok \/ blobs[b].entities = <<>> THEN rest
            ELSE [rows |-> BlobFrame(b) \o rest.rows, loaded |-> {b} \cup rest.loaded]

\* clean_and_validate_dataframe on the rows of the batch: the rows that repeat
\* a record_id are dropped; a row without timestamp fails the validation
CleanRealtimeRows(rows) ==
    IF \E i \in DOMAIN rows : rows[i].timestamp = NoTs
    THEN [status |-> "raised", rows |-> <<>>]
    ELSE [status |-> "ok", rows |-> DropDuplicates(rows, {})]

\* upsert_batch as one call: the staging table is created, loaded, merged
\* into the destination and deleted; ok: no job of the call fails
UpsertBatchCall(rows, ok, today) ==
    LET w == MergeWindow(rows, today)
        src == MergeSource(rows, w)
    IN IF ~destExists \/ ~ok \/ MergeAmbiguous(destRows, src, w)
       THEN [raised |-> TRUE, dest |-> destRows]
       ELSE [raised |-> FALSE, dest |-> MergeResult(destRows, src, w)]

\* lines 113-115 and 135-137
NoRowsResponse(r) == [r EXCEPT !.pc = "ended", !.status = "no_rows", !.http_code = 200]

\* the response that moves the objects although the upsert raised
AfterUpsertMoveAlways(r, up) == [r EXCEPT !.pc = "upserted", !.upsertRaised = up.raised]

\* lines 141-157: an exception of upsert_batch becomes the error response,
\* else the run goes on to move the objects
AfterUpsert(r, up) ==
    IF up.raised
    THEN [ErrorResponse(r, "upsert_failed") EXCEPT !.upsertRaised = TRUE]
    ELSE [r EXCEPT !.pc = "upserted"]

\* process_realtime_batch up to the return of upsert_batch, for the run record
\* r with a non-empty batch; downloadFails: the objects whose download raises,
\* ok: no job of the upsert fails
RealtimeAttempt(r, downloadFails, ok) ==
    LET raw == TransformBlobs(r.batch, downloadFails)
        cleaned == CleanRealtimeRows(raw.rows)
        up == UpsertBatchCall(cleaned.rows, ok, 0)
        loaded == [r EXCEPT !.loaded = raw.loaded,
                            !.rerun = (run.pc = "crashed" /\ run.loaded \subseteq raw.loaded)]
    IN IF raw.rows = <<>> THEN
           /\ run' = NoRowsResponse(loaded)
           /\ UNCHANGED destRows
       ELSE IF dataset \notin DOMAIN DATASET_SCHEMA_MAPPING THEN
           /\ run' = [loaded EXCEPT !.pc = "ended", !.status = "error",
                                    !.http_code = 500, !.error = "schema_not_found"]
           /\ UNCHANGED destRows
       ELSE IF cleaned.status = "raised" THEN
           /\ run' = ErrorResponse(loaded, "SchemaError")
           /\ UNCHANGED destRows
       ELSE IF cleaned.rows = <<>> THEN
           /\ run' = NoRowsResponse(loaded)
           /\ UNCHANGED destRows
       ELSE
           /\ run' = AfterUpsert([loaded EXCEPT !.df = cleaned.rows], up)
           /\ destRows' = up.dest

\* a run of the transform function deployed for a realtime dataset, up to the
\* return of upsert_batch
RunRealtime ==
    /\ dataset # "schedule"
    /\ RunEnded
    /\ run.n < MaxRuns
    /\ LET r == NewRun("realtime") IN
       IF r.batch = <<>> THEN
           /\ run' = EmptyResponse(r)
           /\ UNCHANGED destRows
       ELSE \E downloadFails \in SUBSET Range(r.batch), ok \in BOOLEAN :
                RealtimeAttempt(r, downloadFails, ok)
    /\ UNCHANGED <<destExists, staging, call, onlyMerge, snVars, scVars, njVars, cnVars, ftVars, clVars, ddVars,
                   coVars, dataset, blobs, cache, final, loads>>

\* the same run, scheduled again and again (the runs are not counted), with
\* every download and every warehouse job succeeding
RunRealtimeAgain ==
    /\ dataset # "schedule"
    /\ RunEnded
    /\ LET r == [NewRun("realtime") EXCEPT !.n = 1] IN
       IF r.batch = <<>> THEN
           /\ run' = EmptyResponse(r)
           /\ UNCHANGED destRows
       ELSE RealtimeAttempt(r, {}, TRUE)
    /\ UNCHANGED <<destExists, staging, call, onlyMerge, snVars, scVars, njVars, cnVars, ftVars, clVars, ddVars,
                   coVars, dataset, blobs, cache, final, loads>>

\* the loop that deletes an object whether or not its copy succeeded
MoveToFinalDeleteAnyway(batch, copyFails, deleteFails) ==
    [final |-> final \cup (Range(batch) \ copyFails),
     cache |-> cache \ (Range(batch) \ deleteFails),
     moved |-> Range(batch) \ (copyFails \cup deleteFails)]

\* move_to_final: every object of the list is copied under the final prefix
\* and deleted from the cache; an exception of either call is logged and the
\* loop goes on with the next object
MoveToFinal(batch, copyFails, deleteFails) ==
    [final |-> final \cup (Range(batch) \ copyFails),
     cache |-> cache \ (Range(batch) \ (copyFails \cup deleteFails)),
     moved |-> Range(batch) \ (copyFails \cup deleteFails)]

\* lines 159-189: the objects of the batch are moved and the run returns 'ok'
RealtimeMoveWith(copyFails, deleteFails) ==
    /\ run.kind = "realtime" /\ run.pc = "upserted"
    /\ LET m == MoveToFinal(run.batch, copyFails, deleteFails) IN
          /\ final' = m.final
          /\ cache' = m.cache
          /\ run' = [run EXCEPT !.pc = "ended", !.status = "ok", !.http_code = 200,
                                !.moved = m.moved, !.copyFailed = copyFails,
                                !.deleteFailed = deleteFails]
    /\ UNCHANGED <<whVars, snVars, scVars, njVars, cnVars, ftVars, clVars, ddVars, coVars, dataset, blobs, loads>>

RealtimeMove ==
    \E copyFails \in SUBSET Range(run.batch) :
       \E deleteFails \in SUBSET (Range(run.batch) \ copyFails) :
          RealtimeMoveWith(copyFails, deleteFails)

\* the move with every copy and every delete succeeding
RealtimeMoveAgain == RealtimeMoveWith({}, {})

\* the function instance is stopped after upsert_batch returned and before
\* the objects are moved
RunCrash ==
    /\ run.kind = "realtime" /\ run.pc = "upserted"
    /\ run' = [run EXCEPT !.pc = "crashed"]
    /\ UNCHANGED <<whVars, snVars, scVars, njVars, cnVars, ftVars, clVars, ddVars, coVars, dataset, blobs, cache, final,
                   loads>>

----------------------------------------------------------------------------
(* upsert_batch and _upload_with_tracking, several invocations side by side *)

Invocations == 1..MaxInvocations

IdleInvocation == [fn |-> "none", pc |-> "idle", sid |-> NULL, error |-> NULL]

CnIdle ==
    /\ invs = [i \in Invocations |-> IdleInvocation]
    /\ owner = <<>>
    /\ shared = {}

\* the DataFrame of invocation i: one row, stamped by the invocation
InvocationDf(i) == <<MkRow(IF i % 2 = 1 THEN "r1" ELSE "r2", 1, i)>>

\* the operation op of invocation i on the table sid, when another invocation
\* created the table
Foreign(i, op, sid) ==
    IF sid \in DOMAIN owner /\ owner[sid] # i
    THEN {[by |-> i, op |-> op, of |-> owner[sid]]}
    ELSE {}

\* ON target.record_id = source.record_id
TrackingSourceMatches(t, src) == {k \in DOMAIN src : t.record_id = src[k].record_id}

\* WHEN MATCHED THEN UPDATE SET target.updated_at = source.updated_at
TrackingTarget(t, src) ==
    IF TrackingSourceMatches(t, src) = {} THEN t
    ELSE [t EXCEPT !.updated_at =
             src[CHOOSE k \in TrackingSourceMatches(t, src) : TRUE].updated_at]

\* the MERGE of _upload_with_tracking; WHEN NOT MATCHED THEN INSERT
TrackingMergeResult(dest, src) ==
    LET T == BagToSet(dest)
        ins == {k \in DOMAIN src : \A t \in T : t.record_id # src[k].record_id}
        out == {TrackingTarget(t, src) : t \in T} \cup {src[k] : k \in ins}
        cnt(r) == SumF([t \in T |-> IF TrackingTarget(t, src) = r THEN dest[t] ELSE 0], T)
                  + Cardinality({k \in ins : src[k] = r})
    IN [r \in out |-> cnt(r)]

TrackingMergeAmbiguous(dest, src) ==
    \E t \in BagToSet(dest) : Cardinality(TrackingSourceMatches(t, src)) > 1

\* upsert_batch, lines 39-63: the lookup of the destination table, the name
\* with the random suffix and create_table, all before the try block
InvokeUpsertBatch(i, sid) ==
    /\ invs[i].pc = "idle"
    /\ IF ~destExists THEN
           /\ invs' = [invs EXCEPT ![i] = [fn |-> "upsert_batch", pc |-> "raised",
                                            sid |-> NULL, error |-> "NotFound"]]
           /\ UNCHANGED <<staging, owner>>
       ELSE IF sid \in DOMAIN staging THEN
           /\ invs' = [invs EXCEPT ![i] = [fn |-> "upsert_batch", pc |-> "raised",
                                            sid |-> sid, error |-> "Conflict"]]
           /\ UNCHANGED <<staging, owner>>
       ELSE
           /\ invs' = [invs EXCEPT ![i] = [fn |-> "upsert_batch", pc |-> "staged",
                                            sid |-> sid, error |-> NULL]]
           /\ staging' = (sid :> <<>>) @@ staging
           /\ owner' = (sid :> i) @@ owner
    /\ UNCHANGED <<destExists, destRows, call, onlyMerge, snVars, scVars, njVars, ftVars, clVars, ddVars,
                   coVars, trVars, shared>>

\* _upload_with_tracking, lines 176-182: the name with the random suffix, then
\* create_table inside the try block
InvokeUploadWithTracking(i, sid) ==
    /\ invs[i].pc = "idle"
    /\ IF sid \in DOMAIN staging THEN
           /\ invs' = [invs EXCEPT ![i] = [fn |-> "_upload_with_tracking", pc |-> "failed",
                                            sid |-> sid, error |-> "Conflict"]]
           /\ UNCHANGED <<staging, owner>>
       ELSE
           /\ invs' = [invs EXCEPT ![i] = [fn |-> "_upload_with_tracking", pc |-> "staged",
                                            sid |-> sid, error |-> NULL]]
           /\ staging' = (sid :> <<>>) @@ staging
           /\ owner' = (sid :> i) @@ owner
    /\ UNCHANGED <<destExists, destRows, call, onlyMerge, snVars, scVars, njVars, ftVars, clVars, ddVars,
                   coVars, trVars, shared>>

\* the load job of either function, WRITE_TRUNCATE with the default create
\* disposition: it replaces the rows of the table of that name, and creates the
\* table when it is gone
ConcurrentLoad(i, ok) ==
    /\ invs[i].pc = "staged"
    /\ IF ok
       THEN /\ staging' = (invs[i].sid :> InvocationDf(i)) @@ staging
            /\ owner' = IF invs[i].sid \in DOMAIN owner THEN owner
                        ELSE (invs[i].sid :> i) @@ owner
            /\ shared' = shared \cup Foreign(i, "load", invs[i].sid)
            /\ invs' = [invs EXCEPT ![i].pc = "loaded"]
       ELSE /\ invs' = [invs EXCEPT ![i].pc = "failed", ![i].error = "LoadFailed"]
            /\ UNCHANGED <<staging, owner, shared>>
    /\ UNCHANGED <<destExists, destRows, call, onlyMerge, snVars, scVars, njVars, ftVars, clVars, ddVars,
                   coVars, trVars>>

\* the MERGE of what the staging table of that name holds now
ConcurrentMerge(i, ok, today) ==
    /\ invs[i].pc = "loaded"
    /\ LET sid == invs[i].sid
           rows == IF sid \in DOMAIN staging THEN staging[sid] ELSE <<>>
           w == MergeWindow(InvocationDf(i), today)
           src == MergeSource(rows, w)
           raises == \/ ~ok
                     \/ sid \notin DOMAIN staging
                     \/ ~destExists
                     \/ IF invs[i].fn = "upsert_batch"
                        THEN MergeAmbiguous(destRows, src, w)
                        ELSE TrackingMergeAmbiguous(destRows, rows)
       IN IF raises
          THEN /\ invs' = [invs EXCEPT ![i].pc = "failed", ![i].error = "MergeFailed"]
               /\ UNCHANGED <<destRows, shared>>
          ELSE /\ destRows' = IF invs[i].fn = "upsert_batch"
                              THEN MergeResult(destRows, src, w)
                              ELSE TrackingMergeResult(destRows, rows)
               /\ shared' = shared \cup Foreign(i, "merge", sid)
               /\ invs' = [invs EXCEPT ![i].pc = "merged"]
    /\ UNCHANGED <<destExists, staging, call, onlyMerge, snVars, scVars, njVars, ftVars, clVars, ddVars,
                   coVars, trVars, owner>>

\* the finally block of either function: delete_table(staging_table_id,
\* not_found_ok=True), then the result or the exception
ConcurrentCleanup(i) ==
    /\ invs[i].pc \in {"merged", "failed"}
    /\ staging' = DeleteTable(staging, invs[i].sid)
    /\ owner' = DeleteTable(owner, invs[i].sid)
    /\ shared' = IF invs[i].sid \in DOMAIN staging
                 THEN shared \cup Foreign(i, "delete", invs[i].sid)
                 ELSE shared
    /\ invs' = [invs EXCEPT ![i].pc = IF invs[i].pc = "merged" THEN "returned" ELSE "raised"]
    /\ UNCHANGED <<destExists, destRows, call, onlyMerge, snVars, scVars, njVars, ftVars, clVars, ddVars,
                   coVars, trVars>>

----------------------------------------------------------------------------

NoSnapshot == [exists |-> FALSE, rows |-> {}, captured_at |-> 0]

SnIdle == snap = NoSnapshot /\ keyCols = <<>>

----------------------------------------------------------------------------
(* _overwrite_snapshot and _load_snapshot_keys side by side *)

OwIdle == [pc |-> "idle", source |-> <<>>, prev |-> {}, n |-> 0]

RdIdle == [n |-> 0, observed |-> {}, allowed |-> {}, during |-> FALSE]

ScIdle == ow = OwIdle /\ rd = RdIdle

\* the table while the cleared-then-filled load job runs
ClearedDuringLoadJob(sn, rows, kc) == [sn EXCEPT !.rows = {}]

\* the snapshot table while the WRITE_TRUNCATE load job runs: readers see the
\* rows it had until the job commits
DuringLoadJob(sn, rows, kc) == sn

\* _overwrite_snapshot, lines 206-220: the key frame is built and the load
\* job is started
OverwriteStart(df) ==
    /\ ow.pc = "idle"
    /\ ow.n < MaxCalls
    /\ keyCols # <<>>
    /\ ow' = [pc |-> "loading", source |-> df.rows, prev |-> snap.rows, n |-> ow.n + 1]
    /\ snap' = DuringLoadJob(snap, df.rows, keyCols)
    /\ UNCHANGED <<whVars, keyCols, ftVars, clVars, ddVars, coVars, trVars, cnVars, njVars, rd>>

\* job.result(): the load job commits
OverwriteCommit ==
    /\ ow.pc = "loading"
    /\ snap' = OverwriteSnapshot(snap, ow.source, keyCols, ow.n)
    /\ ow' = [ow EXCEPT !.pc = "idle"]
    /\ UNCHANGED <<whVars, keyCols, ftVars, clVars, ddVars, coVars, trVars, cnVars, njVars, rd>>

\* _load_snapshot_keys of another upload, at any moment
LoadKeysBeside ==
    /\ rd.n < MaxCalls
    /\ rd' = [n |-> rd.n + 1,
              observed |-> LoadSnapshotKeys(snap, keyCols),
              during |-> ow.pc = "loading",
              allowed |-> IF ow.pc = "loading"
                          THEN {ow.prev, KeyProjection(ow.source, keyCols)}
                          ELSE {snap.rows}]
    /\ UNCHANGED <<whVars, snVars, ftVars, clVars, ddVars, coVars, trVars, cnVars, njVars, ow>>

----------------------------------------------------------------------------
(* normalize_nested_json: the nested entities of a feed made into a flat table *)

max_iterations == 10    \* the cap on the list explosions of phase 1
SampleSize == 5         \* head(5): the values of a column the function looks at
MaxEntities == 2        \* entities after the leading ones in one call
MaxLeading == 5         \* leading entities, all alike, in one call: none, or
                        \* one fewer than this, or this many

NjColumns == <<"a", "b">>

\* the values of a cell: None / NaN, a number, a string, a list, a dict
NjNull == [kind |-> "null"]
NjNum == [kind |-> "num"]
NjStr(x) == [kind |-> "str", v |-> x]
NjList(items) == [kind |-> "list", items |-> items]
NjDict(k, v) == [kind |-> "dict", key |-> k, val |-> v]

IsListCell(v) == v.kind = "list"
IsDictCell(v) == v.kind = "dict"

\* a string wrapped in d lists
RECURSIVE Nest(_)
Nest(d) == IF d = 0 THEN NjStr("x") ELSE NjList(<<Nest(d - 1)>>)

\* the values of the first field of an entity: scalars, and lists that are
\* empty, flat, of dicts, mixed, and nested up to and beyond the cap
NjCellsA ==
    {NjNull, NjNum, NjStr("x"), NjList(<<>>), NjList(<<NjDict("k", NjStr("x"))>>),
     NjList(<<NjStr("x"), NjList(<<NjStr("y")>>)>>),
     Nest(max_iterations - 1), Nest(max_iterations), Nest(max_iterations + 1)}

NjCellsB == {NjStr("x"), NjList(<<NjStr("x"), NjDict("k", NjNum)>>)}

NjEntity(a, b) == [c \in Range(NjColumns) |-> IF c = "a" THEN a ELSE b]

EntityLists ==
    {[k \in 1..n |-> NjEntity(lead, NjStr("x"))] \o tail :
        n \in {0, MaxLeading - 1, MaxLeading}, lead \in {NjNull, NjStr("x")},
        tail \in SeqsUpTo({NjEntity(a, b) : a \in NjCellsA, b \in NjCellsB}, MaxEntities)}

\* the dtype pandas gives a column of these values
DtypeOf(values) ==
    IF /\ \A v \in Range(values) : v.kind \in {"null", "num"}
       /\ \E v \in Range(values) : v.kind = "num"
    THEN "float64" ELSE "object"

\* pd.json_normalize(entities, sep="."): one row per entity, one column per
\* field; the fields of these entities hold no dict, so no field is split
JsonNormalize(entities) ==
    [cols |-> NjColumns,
     rows |-> entities,
     dtype |-> [c \in Range(NjColumns) |->
                   DtypeOf([i \in DOMAIN entities |-> entities[i][c]])]]

\* df.select_dtypes(include=["object"]), in column order
ObjectColumns(df) == SelectSeq(df.cols, LAMBDA c : df.dtype[c] = "object")

ColumnValues(df, c) == [i \in DOMAIN df.rows |-> df.rows[i][c]]

\* head(5) of the column with its nulls
SampleValuesWithNulls(df, c) ==
    LET all == ColumnValues(df, c)
    IN SubSeq(all, 1, IF Len(all) < SampleSize THEN Len(all) ELSE SampleSize)

\* df[col].dropna().head(5)
SampleValues(df, c) ==
    LET nn == SelectSeq(ColumnValues(df, c), LAMBDA v : v # NjNull)
    IN SubSeq(nn, 1, IF Len(nn) < SampleSize THEN Len(nn) ELSE SampleSize)

\* the columns phase 1 may explode: a list among the sampled values
ListColumns(df) ==
    SelectSeq(ObjectColumns(df),
              LAMBDA c : \E v \in Range(SampleValues(df, c)) : IsListCell(v))

\* the columns phase 2 flattens: a dict among the sampled values
DictColumns(df) ==
    SelectSeq(ObjectColumns(df),
              LAMBDA c : \E v \in Range(SampleValues(df, c)) : IsDictCell(v))

\* the rows one row becomes when column c is exploded: one per element of a
\* list, one with NaN for an empty list, one per key of a dict, the row itself
\* for any other value
ExplodeRow(r, c) ==
    IF IsListCell(r[c])
    THEN IF r[c].items = <<>>
         THEN <<[r EXCEPT ![c] = NjNull]>>
         ELSE [k \in DOMAIN r[c].items |-> [r EXCEPT ![c] = r[c].items[k]]]
    ELSE IF IsDictCell(r[c]) THEN <<[r EXCEPT ![c] = NjStr(r[c].key)]>>
    ELSE <<r>>

RECURSIVE ExplodeRows(_, _)
ExplodeRows(rows, c) ==
    IF rows = <<>> THEN <<>> ELSE ExplodeRow(Head(rows), c) \o ExplodeRows(Tail(rows), c)

\* df_result.explode(col).reset_index(drop=True)
Explode(df, c) ==
    [df EXCEPT !.rows = ExplodeRows(df.rows, c), !.dtype[c] = "object"]

\* one dict column made into the column of its key; the rows without a dict
\* get NaN there. When a non-null value of the column is no dict, the pandas
\* of the build either raises, and the column stays, or gives that row NaN.
FlattenColumn(df, c, raising) ==
    LET values == ColumnValues(df, c)
        mixed == \E v \in Range(values) : v # NjNull /\ ~IsDictCell(v)
        keys == {v.key : v \in {w \in Range(values) : IsDictCell(w)}}
        k == CHOOSE x \in keys : TRUE
        name == c \o "." \o k
        others == SelectSeq(df.cols, LAMBDA x : x # c)
        cols == others \o <<name>>
        cell(r) == IF IsDictCell(r[c]) THEN r[c].val ELSE NjNull
        rows == [i \in DOMAIN df.rows |->
                    [x \in Range(cols) |-> IF x = name THEN cell(df.rows[i])
                                            ELSE df.rows[i][x]]]
    IN IF mixed /\ c \in raising THEN df
       ELSE [cols |-> cols,
             rows |-> rows,
             dtype |-> [x \in Range(cols) |->
                           IF x = name THEN DtypeOf([i \in DOMAIN rows |-> rows[i][name]])
                           ELSE df.dtype[x]]]

RECURSIVE FlattenColumns(_, _, _)
FlattenColumns(df, dict_columns, raising) ==
    IF dict_columns = <<>> THEN df
    ELSE FlattenColumns(FlattenColumn(df, Head(dict_columns), raising),
                        Tail(dict_columns), raising)

NoFrame == [cols |-> <<>>, rows |-> <<>>, dtype |-> <<>>]

NjNone == [pc |-> "idle", df |-> NoFrame, explosions |-> 0, stopped |-> "no",
           phase1 |-> NoFrame, result |-> NoFrame]

NjIdle == njIn = <<>> /\ nj = NjNone

\* the call starts: json_normalize, then phase 1
NjCall ==
    /\ nj.pc = "idle"
    /\ nj' = [NjNone EXCEPT !.pc = "phase1", !.df = JsonNormalize(njIn)]
    /\ UNCHANGED <<whVars, snVars, scVars, cnVars, ftVars, clVars, ddVars, coVars, trVars, njIn>>

\* one iteration of the loop of phase 1 that finds a list column and explodes
\* the first one
NjExplode ==
    /\ nj.pc = "phase1"
    /\ nj.explosions < max_iterations
    /\ ListColumns(nj.df) # <<>>
    /\ nj' = [nj EXCEPT !.df = Explode(nj.df, ListColumns(nj.df)[1]),
                        !.explosions = @ + 1]
    /\ UNCHANGED <<whVars, snVars, scVars, cnVars, ftVars, clVars, ddVars, coVars, trVars, njIn>>

\* an iteration that finds no list column: break
NjBreak ==
    /\ nj.pc = "phase1"
    /\ nj.explosions < max_iterations
    /\ ListColumns(nj.df) = <<>>
    /\ nj' = [nj EXCEPT !.pc = "phase2", !.stopped = "break", !.phase1 = nj.df]
    /\ UNCHANGED <<whVars, snVars, scVars, cnVars, ftVars, clVars, ddVars, coVars, trVars, njIn>>

\* range(max_iterations) is exhausted
NjExhausted ==
    /\ nj.pc = "phase1"
    /\ nj.explosions = max_iterations
    /\ nj' = [nj EXCEPT !.pc = "phase2", !.stopped = "cap", !.phase1 = nj.df]
    /\ UNCHANGED <<whVars, snVars, scVars, cnVars, ftVars, clVars, ddVars, coVars, trVars, njIn>>

\* phase 2 and the return
NjFlatten ==
    /\ nj.pc = "phase2"
    /\ \E raising \in SUBSET Range(nj.df.cols) :
          nj' = [nj EXCEPT !.pc = "returned",
                           !.result = FlattenColumns(nj.df, DictColumns(nj.df), raising)]
    /\ UNCHANGED <<whVars, snVars, scVars, cnVars, ftVars, clVars, ddVars, coVars, trVars, njIn>>

WhInit ==
    /\ destExists \in BOOLEAN
    /\ destRows = EmptyBag
    /\ staging = <<>>
    /\ call = IdleCall
    /\ onlyMerge = TRUE

Init == WhInit /\ SnIdle /\ FtIdle /\ ClIdle /\ DdIdle /\ CoIdle /\ TrIdle /\ CnIdle /\ ScIdle /\ NjIdle

Next ==
    \/ \E df \in Batches, sid \in UuidChoices : UpsertBegin(df, sid)
    \/ \E ok \in BOOLEAN : UpsertLoad(ok)
    \/ \E ok \in BOOLEAN, today \in Days : UpsertMerge(ok, today)
    \/ UpsertCleanup
    \/ Crash

Spec == Init /\ [][Next]_vars

NextWrite ==
    \/ \E df \in WriteBatches, sid \in UuidChoices : UpsertBegin(df, sid)
    \/ \E ok \in BOOLEAN : UpsertLoad(ok)
    \/ \E ok \in BOOLEAN, today \in Days : UpsertMerge(ok, today)
    \/ UpsertCleanup
    \/ \E df \in WriteBatches, ok \in BOOLEAN : InsertBatch(df, ok)
    \/ \E df \in WriteBatches : StreamUpload(df)
    \/ \E df \in WriteBatches, ok \in BOOLEAN : ArchiveUploadBatch(df, ok)

SpecWrite == Init /\ [][NextWrite]_vars

InitStream ==
    /\ WhInit
    /\ snap = NoSnapshot
    /\ keyCols \in KeyColumnChoices
    /\ FtIdle /\ ClIdle /\ DdIdle /\ CoIdle /\ TrIdle /\ CnIdle /\ ScIdle /\ NjIdle

NextStream ==
    \/ \E df \in StreamBatches, use \in BOOLEAN : SnapshotUpload(df, use)
    \/ \E df \in StreamBatches : StreamUpload(df)

SpecStream == InitStream /\ [][NextStream]_vars

InitFilter ==
    /\ WhInit /\ destExists /\ SnIdle
    /\ ftIn \in FilterInputs
    /\ ftOut = NoOutput
    /\ ClIdle /\ DdIdle /\ CoIdle /\ TrIdle /\ CnIdle /\ ScIdle /\ NjIdle

NextFilter == ApplyDropSeenRows

SpecFilter == InitFilter /\ [][NextFilter]_vars

InitClean ==
    /\ WhInit /\ destExists /\ SnIdle /\ FtIdle
    /\ clSeed \in SetOrders
    /\ clIn = EmptyFrame
    /\ clOut = NotRun
    /\ clAgain = NotRun
    /\ clIds = {}
    /\ clRuns = 0
    /\ DdIdle /\ CoIdle /\ TrIdle /\ CnIdle /\ ScIdle /\ NjIdle

NextClean ==
    \/ \E df \in RawBatches : CleanRaw(df)
    \/ CleanAgain
    \/ \E order \in SetOrders : Restart(order)

SpecClean == InitClean /\ [][NextClean]_vars

InitDedup ==
    /\ WhInit /\ destExists /\ SnIdle /\ FtIdle
    /\ clSeed \in SetOrders
    /\ clIn = EmptyFrame /\ clOut = NotRun /\ clAgain = NotRun /\ clIds = {} /\ clRuns = 0
    /\ ddIn \in DedupBatches
    /\ ddOut = NoDedup
    /\ CoIdle /\ TrIdle /\ CnIdle /\ ScIdle /\ NjIdle

NextDedup == ApplyDeduplicate

SpecDedup == InitDedup /\ [][NextDedup]_vars

InitColumns ==
    /\ WhInit /\ destExists /\ SnIdle /\ FtIdle /\ ClIdle /\ DdIdle
    /\ coIn \in ColumnInputs
    /\ coOut = NotRun
    /\ TrIdle /\ CnIdle /\ ScIdle /\ NjIdle

NextColumns == ApplyClean

SpecColumns == InitColumns /\ [][NextColumns]_vars

InitSchedule ==
    /\ WhInit /\ destExists /\ SnIdle /\ FtIdle /\ ClIdle /\ DdIdle /\ CoIdle
    /\ dataset = "schedule"
    /\ blobs = <<>> /\ cache = {} /\ final = {} /\ loads = EmptyBag /\ run = NoRun
    /\ CnIdle /\ ScIdle /\ NjIdle

NextSchedule ==
    \/ \E content \in PayloadsOf(dataset) : Upload(content)
    \/ RunSchedule

SpecSchedule == InitSchedule /\ [][NextSchedule]_vars

\* the destination table is empty or holds a row written on day 1
InitRealtime ==
    /\ destExists \in BOOLEAN
    /\ destRows \in {EmptyBag, SetToBag({MkRow("r1", TicksPerDay, 0)})}
    /\ staging = <<>> /\ call = IdleCall /\ onlyMerge = TRUE
    /\ SnIdle /\ FtIdle /\ ClIdle /\ DdIdle /\ CoIdle
    /\ dataset = "trip-updates"
    /\ blobs = <<>> /\ cache = {} /\ final = {} /\ loads = EmptyBag /\ run = NoRun
    /\ CnIdle /\ ScIdle /\ NjIdle

NextRealtime ==
    \/ \E content \in PayloadsOf(dataset) : Upload(content)
    \/ RunRealtime
    \/ RealtimeMove
    \/ RunCrash

SpecRealtime == InitRealtime /\ [][NextRealtime]_vars

\* the warehouse is available: the destination table exists and no job fails;
\* the scheduler starts a run again and again, and a run that has started goes
\* on to its end
InitRealtimeLive == InitRealtime /\ destExists

NextRealtimeLive ==
    \/ \E content \in PayloadsOf(dataset) : Upload(content)
    \/ RunRealtimeAgain
    \/ RealtimeMoveAgain

SpecRealtimeLive ==
    /\ InitRealtimeLive /\ [][NextRealtimeLive]_vars
    /\ WF_vars(RunRealtimeAgain) /\ WF_vars(RealtimeMoveAgain)

\* the destination table exists or not and is empty; every invocation draws
\* its suffix from StagingIds
InitConcurrent ==
    /\ WhInit /\ SnIdle /\ FtIdle /\ ClIdle /\ DdIdle /\ CoIdle /\ TrIdle /\ CnIdle /\ ScIdle /\ NjIdle

NextConcurrent ==
    \/ \E i \in Invocations, sid \in StagingIds : InvokeUpsertBatch(i, sid)
    \/ \E i \in Invocations, sid \in StagingIds : InvokeUploadWithTracking(i, sid)
    \/ \E i \in Invocations, ok \in BOOLEAN : ConcurrentLoad(i, ok)
    \/ \E i \in Invocations, ok \in BOOLEAN, today \in Days : ConcurrentMerge(i, ok, today)
    \/ \E i \in Invocations : ConcurrentCleanup(i)

SpecConcurrent == InitConcurrent /\ [][NextConcurrent]_vars

\* the snapshot table exists and is empty; the uploads are configured with
\* key columns of the table
InitSnapshotBeside ==
    /\ WhInit /\ destExists
    /\ snap = [NoSnapshot EXCEPT !.exists = TRUE]
    /\ keyCols \in {kc \in KeyColumnChoices : kc # <<>> /\ KeyColumnsValid(kc)}
    /\ FtIdle /\ ClIdle /\ DdIdle /\ CoIdle /\ TrIdle /\ CnIdle /\ ScIdle /\ NjIdle

NextSnapshotBeside ==
    \/ \E df \in StreamBatches : OverwriteStart(df)
    \/ OverwriteCommit
    \/ LoadKeysBeside

SpecSnapshotBeside == InitSnapshotBeside /\ [][NextSnapshotBeside]_vars

\* one call of normalize_nested_json on a list of entities
InitNormalize ==
    /\ WhInit /\ SnIdle /\ FtIdle /\ ClIdle /\ DdIdle /\ CoIdle /\ TrIdle /\ CnIdle /\ ScIdle
    /\ njIn \in EntityLists
    /\ nj = NjNone

NextNormalize ==
    \/ NjCall
    \/ NjExplode
    \/ NjBreak
    \/ NjExhausted
    \/ NjFlatten

SpecNormalize == InitNormalize /\ [][NextNormalize]_vars

----------------------------------------------------------------------------
(* Properties of the staged merge, under Spec *)

RowsWithId(rid) ==
    SumF([t \in BagToSet(destRows) |-> IF t.record_id = rid THEN destRows[t] ELSE 0],
         BagToSet(destRows))

\* C1: after any sequence of upsert_batch calls whose batches each have unique
\* record_id values (crashed and re-applied calls included), the destination
\* table holds at most one row per record_id.
C1_AtMostOneRowPerRecordId ==
    onlyMerge => \A rid \in RecordIds : RowsWithId(rid) <= 1

\* C2: applying the same batch a second time leaves the destination table as the
\* first application left it: no row is inserted and every matched row is
\* re-updated to the values it already has.
C2_MergeIdempotent ==
    (call.op = "upsert" /\ call.again) => destRows = call.before

\* the second application has run its MERGE and matched a row of the table
C2_Witness ==
    /\ call.op = "upsert" /\ call.again /\ call.pc = "returned"
    /\ \E t \in BagToSet(destRows) :
          SourceMatches(t, MergeSource(call.df.rows, call.window), call.window) # {}

----------------------------------------------------------------------------
(* Properties of the write strategies, under SpecWrite *)

EndedInError == call.pc = "raised" \/ "error" \in DOMAIN call.result

\* C7: whichever write strategy is used, a call with a non-empty batch against a
\* destination table that does not exist ends in an error, writes no row and
\* creates no table.
C7_MissingTableIsFatal ==
    (call.pc \in {"returned", "raised"} /\ ~call.existed /\ ~DfEmpty(call.df))
        => (EndedInError /\ ~destExists /\ destRows = call.before)

----------------------------------------------------------------------------
(* Properties of the streaming uploads, under SpecStream *)

\* the upload runs the snapshot steps: use_snapshot is set and there is a key
\* column (with no key column the load, the filter and the overwrite return at once)
SnapshotEnabled == call.op = "snapshot_upload" /\ call.use /\ keyCols # <<>>

ReturnedClean == call.pc = "returned" /\ "error_count" \notin DOMAIN call.result

\* C4: when a snapshot-enabled upload of a non-empty batch returns without
\* insert errors, also when its filtered output is empty, the snapshot table
\* holds exactly the deduplicated normalized key tuples of the batch as it was
\* before the filter; no key of the previous snapshot that the batch lacks stays.
C4_SnapshotIsLastBatch ==
    (SnapshotEnabled /\ ReturnedClean /\ ~DfEmpty(call.df))
        => (snap.exists /\ snap.rows = KeyProjection(call.df.rows, keyCols))

\* an upload whose rows were all filtered out has replaced a snapshot that held
\* a key its batch does not have
C4_Witness ==
    /\ SnapshotEnabled /\ ReturnedClean /\ ~DfEmpty(call.df)
    /\ call.result.rows_processed = 0
    /\ call.prevValid /\ call.prevKeys \ snap.rows # {}

\* C4 as stated, the empty input batch included
C4_AsStated ==
    (SnapshotEnabled /\ ReturnedClean)
        => snap.rows = KeyProjection(call.df.rows, keyCols)

\* C6: when snapshot-enabled uploads follow one another and the one before
\* returned without insert errors, an upload sends to the destination no row
\* whose normalized key tuple was in the input batch of the upload before it.
C6_NoRowOfPrecedingBatch ==
    (SnapshotEnabled /\ call.prevValid)
        => \A i \in DOMAIN call.sent : KeyOf(call.sent[i], keyCols) \notin call.prevKeys

\* the second upload dropped a row of the preceding batch and sent another
C6_Witness ==
    /\ SnapshotEnabled /\ call.prevValid /\ call.pc = "returned"
    /\ call.sent # <<>>
    /\ call.result.skipped_duplicates > 0
    /\ \E i \in DOMAIN call.df.rows : KeyOf(call.df.rows[i], keyCols) \in call.prevKeys

\* C8: when insert_rows reports row errors, the streaming upload (with or
\* without snapshot) does not raise: it returns a result that carries the list
\* of row errors and its length.
C8_RowErrorsReturned ==
    (call.op \in {"stream", "snapshot_upload"} /\ call.failed # {})
        => /\ call.pc = "returned"
           /\ "error_count" \in DOMAIN call.result
           /\ call.result.errors = InsertErrors(call.sent, call.failed)
           /\ call.result.error_count = Cardinality(call.failed)

\* the snapshot upload has returned the row error of a batch of which one row
\* was rejected and one was written
C8_Witness ==
    /\ call.op = "snapshot_upload" /\ call.use /\ call.pc = "returned"
    /\ Cardinality(call.failed) = 1 /\ Len(call.sent) = 2
    /\ call.result.error_count = 1

----------------------------------------------------------------------------
(* Properties of _drop_seen_rows, under SpecFilter *)

FtKey(i) == KeyOf(ftIn.rows[i], ftIn.kc)

\* the row at position i has a key that is not in existing_keys and that no
\* earlier row of the batch has
FirstOfNewKey(i) ==
    /\ FtKey(i) \notin ftIn.existing
    /\ \A j \in 1..(i - 1) : FtKey(j) # FtKey(i)

\* C5: with at least one key column, _drop_seen_rows returns, in their order,
\* exactly the rows of the batch that are the first of the batch with their
\* normalized key and whose key is not in the set, and skipped counts all the
\* other rows; with no key column it returns the batch as it is and 0.
C5_FirstRowOfEachNewKey ==
    ftOut.done =>
        IF ftIn.kc = <<>>
        THEN ftOut.rows = ftIn.rows /\ ftOut.skipped = 0
        ELSE /\ ftOut.rows = Pick(ftIn.rows, {i \in DOMAIN ftIn.rows : FirstOfNewKey(i)})
             /\ ftOut.skipped = Cardinality({i \in DOMAIN ftIn.rows : ~FirstOfNewKey(i)})

\* the filter dropped a row whose key is in the set and a row that repeats a
\* key of the batch, and kept a row
C5_Witness ==
    /\ ftOut.done /\ ftIn.kc # <<>>
    /\ ftOut.rows # <<>>
    /\ \E i \in DOMAIN ftIn.rows : FtKey(i) \in ftIn.existing
    /\ \E i, j \in DOMAIN ftIn.rows : j < i /\ FtKey(j) = FtKey(i) /\ FtKey(i) \notin ftIn.existing

\* C5 as stated: the rows whose key is not in the set are returned, and skipped
\* counts the rows whose key is in the set
C5_AsStated ==
    ftOut.done =>
        /\ ftOut.rows = SelectSeq(ftIn.rows, LAMBDA r : KeyOf(r, ftIn.kc) \notin ftIn.existing)
        /\ ftOut.skipped = Cardinality({i \in DOMAIN ftIn.rows : FtKey(i) \in ftIn.existing})

----------------------------------------------------------------------------
(* Properties of the cleaning pipeline, under SpecClean *)

\* C9: two rows that agree on every non-volatile column get the same record_id,
\* whatever the column order of the raw table, whatever their volatile values
\* and whichever run or process cleans them.
C9_SameContentSameRecordId ==
    \A p, q \in clIds : p.content = q.content => p.record_id = q.record_id

\* C10: cleaning the DataFrame that the pipeline returned succeeds and returns
\* the same columns in the same order with the same rows and values.
C10_SecondPassIsNoOp ==
    clAgain.done => (clAgain.status = "ok" /\ clAgain.df = clOut.df)

----------------------------------------------------------------------------
(* Properties of deduplicate_by_record_id, under SpecDedup *)

\* the row at position i is the first of the DataFrame with its record_id
FirstWithRecordId(df, i) ==
    \A j \in 1..(i - 1) : df.rows[j].record_id # df.rows[i].record_id

\* the raw rows at positions i and j differ in the feed timestamp only
SameButTimestamp(i, j) ==
    /\ ddIn.rows[i]["trip_update.timestamp"] # ddIn.rows[j]["trip_update.timestamp"]
    /\ \A c \in DOMAIN ddIn.rows[i] \ {"trip_update.timestamp"} :
          ddIn.rows[i][c] = ddIn.rows[j][c]

\* C11: deduplicate_by_record_id returns, in their order and with the same
\* columns, exactly the rows that are the first of the batch with their
\* record_id; in a batch of three rows whose first and third differ in a
\* volatile field only, and whose second has another record_id, the first two
\* rows are returned and two rows leave the pipeline.
C11_KeepsFirstOfEachRecordId ==
    ddOut.done =>
        /\ ddOut.post.cols = ddOut.pre.cols
        /\ IF HasColumn(ddOut.pre, "record_id")
           THEN ddOut.post.rows =
                    Pick(ddOut.pre.rows,
                         {i \in DOMAIN ddOut.pre.rows : FirstWithRecordId(ddOut.pre, i)})
           ELSE ddOut.post.rows = ddOut.pre.rows
        /\ (/\ Len(ddIn.rows) = 3
            /\ SameButTimestamp(1, 3)
            /\ ddOut.pre.rows[2].record_id # ddOut.pre.rows[1].record_id)
           => /\ ddOut.post.rows = <<ddOut.pre.rows[1], ddOut.pre.rows[2]>>
              /\ ddOut.final.status = "ok" => Len(ddOut.final.df.rows) = 2

\* the third of three rows repeated the record_id of the first and was dropped,
\* and the pipeline returned the two others
C11_Witness ==
    /\ ddOut.done /\ Len(ddIn.rows) = 3
    /\ SameButTimestamp(1, 3)
    /\ ddOut.pre.rows[3].record_id = ddOut.pre.rows[1].record_id
    /\ Len(ddOut.post.rows) = 2
    /\ ddOut.final.status = "ok" /\ Len(ddOut.final.df.rows) = 2

\* C27: two rows handed to deduplicate_by_record_id with the same record_id
\* agree on every non-volatile column, so a row is dropped only when an
\* earlier row agrees with it on every non-volatile column (the hash is
\* modelled as injective).
C27_SameIdSameContent ==
    (ddOut.done /\ HasColumn(ddOut.pre, "record_id")) =>
        \A i, j \in DOMAIN ddOut.pre.rows :
            ddOut.pre.rows[i].record_id = ddOut.pre.rows[j].record_id =>
                \A c \in Range(ddOut.pre.cols) \ TripUpdates.COLS_VOLATILE :
                    ddOut.pre.rows[i][c] = ddOut.pre.rows[j][c]

----------------------------------------------------------------------------
(* Properties of the returned column list, under SpecColumns *)

\* C12: when clean_and_validate_dataframe returns for a non-empty input, the
\* columns of the returned table are the fields of the contract, all of them
\* and no other, in the declared order, also when the returned table has no row.
C12_ColumnsAreContractFields ==
    (coOut.done /\ coOut.status = "ok" /\ ~DfEmpty(coIn.df))
        => coOut.df.cols = GetSchemaClass(coIn.dataset).fields

----------------------------------------------------------------------------
(* Properties of the schedule runs, under SpecSchedule *)

ScheduleRunEnded == run.kind = "schedule" /\ run.pc = "ended"

\* the errors the run recorded for the files of object b
ErrorsOf(b) == {k \in DOMAIN run.errors : run.errors[k].file[1] = b}

\* C13: when a schedule run has ended, an object of its batch is gone from the
\* cache only if the run processed it and recorded no error for it; an object
\* with a recorded error is still in the cache; an object without a recorded
\* error is gone unless its delete call failed; and when the batch returned,
\* its status is 'ok' exactly when no error was recorded and 'partial' otherwise.
C13_DeletedOnlyWithoutError ==
    ScheduleRunEnded =>
        /\ \A b \in Range(run.batch) :
              /\ b \notin cache => (b \in run.reached /\ ErrorsOf(b) = {})
              /\ ErrorsOf(b) # {} => b \in cache
              /\ (b \in run.reached /\ ErrorsOf(b) = {} /\ b \notin run.deleteFailed)
                    => b \notin cache
        /\ (run.batch # <<>> /\ run.status # "error") =>
              /\ run.status = "ok" <=> run.errors = <<>>
              /\ run.status = "partial" <=> run.errors # <<>>

\* a run deleted one object and retained another one for which it had
\* recorded an error, and returned 'partial'
C13_Witness ==
    /\ ScheduleRunEnded /\ run.status = "partial"
    /\ \E b, c \in Range(run.batch) :
          /\ b \notin cache /\ ErrorsOf(b) = {}
          /\ c \in cache /\ ErrorsOf(c) # {}

\* C13 as stated: after a batch that returned, an object is gone from the
\* cache if and only if no error was recorded for it
C13_AsStated ==
    (ScheduleRunEnded /\ run.status \in {"ok", "partial"}) =>
        /\ \A b \in Range(run.batch) : b \notin cache <=> ErrorsOf(b) = {}
        /\ run.status = "ok" <=> run.errors = <<>>

\* the files of the processed objects whose rows fail validation
InvalidFiles ==
    {f \in FilesOf(run.batch) : f[1] \in run.reached /\ blobs[f[1]].files[f[2]] = "invalid"}

\* C15: when a schedule run has ended, for every file it processed whose rows
\* fail validation: no row of the file is in the warehouse, the file is in the
\* error list, the status is not 'ok' and the object is still in the cache.
C15_ValidationFailureReported ==
    ScheduleRunEnded =>
        \A f \in InvalidFiles :
            /\ ~BagIn(f, loads)
            /\ \E k \in DOMAIN run.errors : run.errors[k].file = f
            /\ run.status # "ok"
            /\ f[1] \in cache

\* C18: the rows of one file of one cached schedule ZIP are appended to the
\* warehouse at most once over all runs.
C18_AppendedAtMostOnce ==
    \A f \in BagToSet(loads) : loads[f] <= 1

\* the file f of a processed object has an outcome in the response
FileAccounted(f) ==
    \/ f \in Range(run.table_results)
    \/ f \in Range(run.skipped_files)
    \/ \E k \in DOMAIN run.errors : run.errors[k].file = f

\* C28: when a schedule run has ended, whatever failed for one object or one
\* file, every other object of the batch was processed, and every file of
\* every readable ZIP of the batch was loaded, skipped or recorded in the
\* error list.
C28_FailureDoesNotStopOthers ==
    ScheduleRunEnded =>
        /\ Range(run.batch) \ run.downloadFailed \subseteq run.reached
        /\ \A f \in FilesOf(run.batch) :
               blobs[f[1]].ok /\ f[1] \notin run.downloadFailed => FileAccounted(f)

----------------------------------------------------------------------------
(* Properties of the realtime runs, under SpecRealtime *)

RealtimeRunEnded == run.kind = "realtime" /\ run.pc = "ended"

\* C14: when a realtime run has ended, every object of its batch that it copied
\* to the final location or removed from the cache had been downloaded and
\* decoded and had rows in the batch handed to the upsert; an object that
\* failed to load is still in the cache.
C14_MovedOnlyIfProcessed ==
    RealtimeRunEnded =>
        \A b \in Range(run.batch) :
            /\ (b \in final \ run.finalBefore \/ b \notin cache) => b \in run.loaded
            /\ ~blobs[b].ok => b \in cache

\* C16: when upsert_batch raised in a realtime run, the run has ended with
\* status 'error' and HTTP code 500, every object of its batch is still in the
\* cache and none was copied to the final location.
C16_UpsertFailureKeepsBlobs ==
    (run.kind = "realtime" /\ run.upsertRaised) =>
        /\ run.pc = "ended" /\ run.status = "error" /\ run.http_code = 500
        /\ Range(run.batch) \subseteq cache
        /\ final = run.finalBefore
        /\ destRows = run.destBefore

\* the upsert of a batch of two loaded objects raised although the
\* destination table exists
C16_Witness ==
    /\ run.kind = "realtime" /\ run.upsertRaised /\ run.status = "error"
    /\ destExists /\ Cardinality(run.loaded) = 2

\* the items of the batch that failed: for a schedule run the objects with a
\* recorded error or with a file that failed validation, for a realtime run
\* the objects that did not download or decode
ItemsFailed ==
    IF run.kind = "schedule"
    THEN {b \in run.reached : ErrorsOf(b) # {} \/ \E f \in InvalidFiles : f[1] = b}
    ELSE {b \in Range(run.batch) :
            b \notin run.loaded /\ (~blobs[b].ok \/ blobs[b].entities # <<>>)}

\* C17: a run that has ended has one of the statuses 'empty', 'ok', 'partial'
\* and 'error'; it is 'empty' exactly when no object was pending, 'ok' only
\* when no item failed, and 'partial' or 'error' when an item failed.
C17_TerminalStatuses ==
    run.pc = "ended" =>
        /\ run.status \in {"empty", "ok", "partial", "error"}
        /\ run.status = "empty" <=> run.batch = <<>>
        /\ run.status = "ok" => ItemsFailed = {}
        /\ ItemsFailed # {} => run.status \in {"partial", "error"}

NoDuplicateRecordId(table) ==
    /\ \A t \in BagToSet(table) : table[t] = 1
    /\ \A t, u \in BagToSet(table) : t.record_id = u.record_id => t = u

\* the run loaded again every object of the run that had stopped before it,
\* and its upsert_batch returned
RerunUpserted ==
    /\ run.kind = "realtime" /\ run.rerun
    /\ run.pc = "upserted" \/ (run.pc = "ended" /\ run.status = "ok")

\* C19: when a realtime run stopped between its upsert and the move of its
\* objects, and the destination table had no duplicate record_id then, the
\* upsert of a later run that loads the same objects again, alone or with newer
\* ones, leaves the table without duplicate record_id and leaves every row the
\* table had with its created_at.
C19_RerunKeepsTable ==
    (RerunUpserted /\ NoDuplicateRecordId(run.destBefore)) =>
        /\ NoDuplicateRecordId(destRows)
        /\ \A t \in BagToSet(run.destBefore) :
              \E u \in BagToSet(destRows) :
                  u.record_id = t.record_id /\ u.created_at = t.created_at

----------------------------------------------------------------------------
(* Properties of the invocations side by side, under SpecConcurrent *)

\* C20: no staged-merge invocation loads into, merges from or deletes a staging
\* table that another invocation created.
C20_NoSharedStagingTable == shared = {}

----------------------------------------------------------------------------
(* Properties of the merge of upsert_batch, under Spec *)

SourceWithId(src, rid) == {i \in DOMAIN src : src[i].record_id = rid}

\* the destination row t after a merge keyed on record_id alone
KeyedTarget(t, src) ==
    IF SourceWithId(src, t.record_id) = {} THEN t
    ELSE MergeUpdate(t, src[CHOOSE i \in SourceWithId(src, t.record_id) : TRUE])

\* the table after a merge keyed on record_id alone: matched rows updated but
\* for created_at, unmatched source rows inserted, the other rows untouched
KeyedMerge(dest, src) ==
    LET T == BagToSet(dest)
        ins == {i \in DOMAIN src : \A t \in T : t.record_id # src[i].record_id}
        out == {KeyedTarget(t, src) : t \in T} \cup {src[i] : i \in ins}
        cnt(r) == SumF([t \in T |-> IF KeyedTarget(t, src) = r THEN dest[t] ELSE 0], T)
                  + Cardinality({i \in ins : src[i] = r})
    IN [r \in out |-> cnt(r)]

\* C21: when the merge of upsert_batch has run on a batch with unique
\* record_id, every destination row whose record_id is in the batch has kept
\* its created_at and taken every other column from the batch row, every batch
\* row whose record_id was not in the table is inserted, and the other
\* destination rows are as they were.
C21_MergeByRecordId ==
    (call.op = "upsert" /\ call.pc = "merged" /\ UniqueRecordIds(call.df.rows)) =>
        destRows = KeyedMerge(call.before, call.df.rows)

\* the MERGE of the call has run, or it was sent and failed
WindowComputed == call.op = "upsert" /\ (call.pc = "merged" \/ call.error = "MergeFailed")

\* C25: the merge window of a batch with a timestamp starts at a midnight no
\* later than the smallest batch timestamp and less than a day before it, and
\* ends at the first midnight after the largest one, so every batch timestamp
\* t has lb <= t < ub; a destination row exactly at ub is outside the window
\* and is left as it was; the window of a batch without any timestamp is one
\* whole day of the clock.
C25_HalfOpenDayWindow ==
    WindowComputed =>
        LET ts == TsValues(call.df.rows)
            w == call.window
        IN /\ ts # {} =>
                /\ w.lb % TicksPerDay = 0 /\ w.ub % TicksPerDay = 0
                /\ w.lb <= MinOf(ts) /\ MinOf(ts) < w.lb + TicksPerDay
                /\ w.ub - TicksPerDay <= MaxOf(ts) /\ MaxOf(ts) < w.ub
                /\ \A t \in ts : w.lb <= t /\ t < w.ub
           /\ ts = {} => \E d \in Days : w = [lb |-> DayStart(d), ub |-> DayStart(d + 1)]
           /\ call.pc = "merged" =>
                \A t \in BagToSet(call.before) :
                    t.timestamp = w.ub => (t \in BagToSet(destRows) /\ destRows[t] >= call.before[t])

\* the MERGE has run on a batch whose window ends exactly at the timestamp of
\* a destination row with a record_id of the batch
C25_Witness ==
    /\ call.op = "upsert" /\ call.pc = "merged"
    /\ TsValues(call.df.rows) # {}
    /\ \E t \in BagToSet(call.before) :
          /\ t.timestamp = call.window.ub
          /\ \E i \in DOMAIN call.df.rows : call.df.rows[i].record_id = t.record_id

\* C26: when upsert_batch has returned normally, every row of the batch is in
\* the destination table, as it is in the batch or with the created_at of the
\* row it updated, and rows_processed is the number of batch rows.
C26_EveryBatchRowWritten ==
    (call.op = "upsert" /\ call.pc = "returned") =>
        /\ call.result.rows_processed = Len(call.df.rows)
        /\ \A i \in DOMAIN call.df.rows :
              \E t \in BagToSet(destRows) :
                  [t EXCEPT !.created_at = 0] = [call.df.rows[i] EXCEPT !.created_at = 0]

\* move_to_final has run in the realtime run
MovedToFinal == RealtimeRunEnded /\ run.status = "ok"

\* C29: after move_to_final, an object of the list that is no longer in the
\* cache is in the final location; every object whose copy and delete raised
\* nothing is in the final location and out of the cache, whatever happened
\* to the others; and the objects counted as moved are those that were copied
\* and deleted.
C29_DeleteOnlyAfterCopy ==
    MovedToFinal =>
        /\ \A b \in Range(run.batch) : b \notin cache => b \in final
        /\ \A b \in Range(run.batch) \ (run.copyFailed \cup run.deleteFailed) :
              b \in final /\ b \notin cache
        /\ run.moved = {b \in Range(run.batch) : b \in final /\ b \notin cache}
        /\ run.copyFailed \subseteq cache

\* the copy of the first object of a batch of two failed and the second
\* object was moved
C29_Witness ==
    /\ MovedToFinal /\ Len(run.batch) = 2
    /\ run.copyFailed = {run.batch[1]} /\ run.batch[1] \in cache
    /\ run.moved = {run.batch[2]}

----------------------------------------------------------------------------
(* Properties of the repeated realtime runs, under SpecRealtimeLive *)

\* C22: under repeated runs with an available warehouse, every object that is
\* in the realtime cache is eventually in the final location.
C22_EveryBlobReachesFinal ==
    \A b \in 1..MaxBlobs : (b \in cache) ~> (b \in final)

----------------------------------------------------------------------------
(* Properties of the snapshot under insert errors, under SpecStream *)

\* C24: a snapshot-enabled upload whose streaming insert reports row errors
\* leaves the key set of the snapshot and its captured_at as they were before
\* the upload.
C24_ErrorsLeaveSnapshot ==
    [][(/\ call'.n # call.n
        /\ call'.op = "snapshot_upload" /\ call'.use
        /\ "error_count" \in DOMAIN call'.result)
           => (snap'.rows = snap.rows /\ snap'.captured_at = snap.captured_at)]_vars

\* an upload with key columns whose insert reported a row error has returned
\* while the snapshot holds the keys of an earlier batch, and the batch has a
\* key the snapshot lacks
C24_Witness ==
    /\ SnapshotEnabled /\ call.pc = "returned" /\ call.failed # {}
    /\ snap.rows # {}
    /\ KeyProjection(call.df.rows, keyCols) \ snap.rows # {}

----------------------------------------------------------------------------
(* Properties of the load beside the overwrite, under SpecSnapshotBeside *)

----------------------------------------------------------------------------
(* Properties of normalize_nested_json, under SpecNormalize *)

\* the non-null values of column c above row i
NonNullAbove(df, c, i) == {j \in 1..(i - 1) : df.rows[j][c] # NjNull}

\* some column holds a list among its first SampleSize non-null values
ListInSight(df) ==
    \E c \in Range(df.cols) : \E i \in DOMAIN df.rows :
        /\ IsListCell(df.rows[i][c])
        /\ Cardinality(NonNullAbove(df, c, i)) < SampleSize

\* the steps a call may still take before it returns
NjStepsLeft ==
    CASE nj.pc = "idle" -> max_iterations + 3
      [] nj.pc = "phase1" -> (max_iterations - nj.explosions) + 2
      [] nj.pc = "phase2" -> 1
      [] OTHER -> 0

\* C30: a call of normalize_nested_json terminates (every step brings the
\* return nearer, and phase 1 is never past the cap, where the loop has no
\* next iteration and no exit) after at most 10 list explosions, and when phase 1 has stopped before the cap, no column of the
\* table it leaves has a list among its first 5 non-null values.
C30_CappedExplosions ==
    /\ [](nj.explosions <= max_iterations)
    /\ [](nj.stopped = "break" =>
              nj.explosions < max_iterations /\ ~ListInSight(nj.phase1))
    /\ [][NjStepsLeft' < NjStepsLeft]_vars

\* a call that exploded a column, stopped before the cap and left a list
\* below the sampled values
C30_Witness ==
    /\ nj.pc = "returned"
    /\ nj.stopped = "break"
    /\ nj.explosions > 0
    /\ \E c \in Range(nj.phase1.cols) : \E i \in DOMAIN nj.phase1.rows :
           IsListCell(nj.phase1.rows[i][c])

====
